---- MODULE Spec2Model ----
(***************************************************************************)
(* A model of ts-playwright-lighthouse: the session function               *)
(* runLighthouseTest (the index.ts listing carried in src/README.md), the  *)
(* Web Vitals helpers of src/src/webVitals.ts and the report writers it    *)
(* calls.                                                                  *)
(*                                                                         *)
(* JavaScript values are represented as tuples:                            *)
(*   a number  is a reduced fraction <<n, d>> with d > 0,                  *)
(*   null      is <<>>,                                                    *)
(*   undefined is <<"undefined">> where a number could stand, and the      *)
(*   record UndefinedObj where an object could stand.                      *)
(* Milliseconds, scores in [0,1] and CLS (0.1 = <<1,10>>) are all numbers  *)
(* of this one kind, so no unit is rescaled by the model.                  *)
(***************************************************************************)
EXTENDS Integers, Sequences, FiniteSets, TLC

VARIABLES
  \* ---- what the session is started with ----
  argv,             \* the parsed command line
  configFile,       \* the file at the --config path: [exists, parses, content]
  \* ---- the session (runLighthouseTest) ----
  pc,               \* position of the session function
  config,           \* the merged TestConfig
  chrome,           \* the chrome-launcher handle: [port, launches, kills]
  i,                \* the run loop's counter
  inFlight,         \* audits called and not yet returned
  auditLog,         \* every lighthouse() call so far: [url, port, run]
  runnerResult,     \* the LighthouseResult of the current run
  runLog,           \* the lhr of every run whose audit returned
  scores,           \* category -> list of per-run scores (x100)
  webVitalsResults, \* list of per-run WebVitalsResult
  avgScores,        \* category -> mean score (NoResult until computed)
  testResult,       \* the aggregated TestResult
  files,            \* files the session wrote under the output directory
  historyDir,       \* the history directory: a set of files
  historyData,      \* history entries loaded for the trend report
  compareTestResult,\* the TestResult of the comparison run
  browser,          \* the Playwright browser of the screenshot: "none", "open", "closed"
  logged,           \* the logger.error calls of the session, each by the step that failed
  failedAt,         \* the step whose failure was thrown inside the try block ("" if none)
  exitCode,         \* the process's exit status, meaningful once pc = "exited"
  \* ---- inputs and outputs of the pure helpers (SpecVitals, SpecBand) ----
  audits,           \* lhr.audits handed to extractWebVitals
  metrics,          \* the WebVitalsMetrics extracted from it
  evaluations,      \* evaluateWebVitals(metrics)
  recommendations,  \* generateWebVitalsRecommendations(metrics, evaluations)
  \* ---- input and output of the comparison reporter (SpecCompare) ----
  comparisonData,   \* the ComparisonData built by generateComparisonReport
  comparisonHtml    \* what generateComparisonHtml computes from it

envVars == <<argv, configFile>>
sessionVars == <<envVars, pc, config, chrome, i, inFlight, auditLog, runnerResult, runLog,
                 scores, webVitalsResults, avgScores, testResult, files, historyDir,
                 historyData, compareTestResult, browser, logged, failedAt, exitCode>>
vitalsVars == <<audits, metrics, evaluations, recommendations>>
compareVars == <<comparisonData, comparisonHtml>>
helperVars == <<vitalsVars, compareVars>>
vars == <<sessionVars, helperVars>>

-----------------------------------------------------------------------------
(* JavaScript values *)

Null == <<>>
Undefined == <<"undefined">>
UndefinedObj == [undefined |-> TRUE]

RECURSIVE GCD(_, _)
GCD(a, b) == IF b = 0 THEN a ELSE GCD(b, a % b)

Abs(n) == IF n < 0 THEN -n ELSE n

\* The number n/d, reduced (d > 0).
Num(n, d) == LET g == GCD(Abs(n), d) IN <<n \div g, d \div g>>
Whole(n) == <<n, 1>>

Lt(a, b) == a[1] * b[2] < b[1] * a[2]
Le(a, b) == a[1] * b[2] <= b[1] * a[2]
Add(a, b) == Num(a[1] * b[2] + b[1] * a[2], a[2] * b[2])
Mul(a, b) == Num(a[1] * b[1], a[2] * b[2])
DivInt(a, k) == Num(a[1], a[2] * k)
Sub(a, b) == Num(a[1] * b[2] - b[1] * a[2], a[2] * b[2])
\* a / b for b # 0.
Div(a, b) == IF b[1] > 0 THEN Num(a[1] * b[2], a[2] * b[1])
             ELSE Num(-(a[1] * b[2]), a[2] * (-b[1]))
\* Math.abs
MathAbs(a) == <<Abs(a[1]), a[2]>>

\* JavaScript's ToNumber for the operand of `*`: null counts as 0.
ToNumber(x) == IF x = Null THEN Whole(0) ELSE x

-----------------------------------------------------------------------------
(* src/src/webVitals.ts *)

\* The fields of WebVitalsMetrics, in declaration order.
MetricNames == <<"FCP", "LCP", "CLS", "FID", "TTI", "TBT", "TTFB">>
Metrics == {MetricNames[k] : k \in 1..Len(MetricNames)}

\* The audit id extractWebVitals reads each metric from.
AuditId(m) ==
  CASE m = "FCP"  -> "first-contentful-paint"
    [] m = "LCP"  -> "largest-contentful-paint"
    [] m = "CLS"  -> "cumulative-layout-shift"
    [] m = "FID"  -> "max-potential-fid"
    [] m = "TTI"  -> "interactive"
    [] m = "TBT"  -> "total-blocking-time"
    [] m = "TTFB" -> "server-response-time"

\* An audits object is a function from the ids it holds to audit records
\* [score, numericValue]; lookup of an id it lacks gives undefined.
Lookup(obj, key) == IF key \in DOMAIN obj THEN obj[key] ELSE UndefinedObj

\* getMetricValue testing `audit.numericValue` for truthiness: 0 counts as no value.
getMetricValueTruthy(audit) ==
  IF audit = UndefinedObj \/ audit.score = Null THEN Null
  ELSE IF audit.numericValue # Undefined /\ audit.numericValue # Whole(0)
       THEN audit.numericValue
  ELSE Null

\* Lines 43-52 of webVitals.ts.
getMetricValue(audit) ==
  IF audit = UndefinedObj \/ audit.score = Null THEN Null
  ELSE IF audit.numericValue # Undefined THEN audit.numericValue
  ELSE Null

extractWebVitals(lhr) ==
  [m \in Metrics |-> getMetricValue(Lookup(lhr.audits, AuditId(m)))]

\* The two thresholds of each block of evaluateWebVitals.
GoodBelow(m) ==
  CASE m = "FCP"  -> Whole(1800)
    [] m = "LCP"  -> Whole(2500)
    [] m = "CLS"  -> Num(1, 10)
    [] m = "FID"  -> Whole(100)
    [] m = "TTI"  -> Whole(3800)
    [] m = "TBT"  -> Whole(200)
    [] m = "TTFB" -> Whole(800)

ImproveBelow(m) ==
  CASE m = "FCP"  -> Whole(3000)
    [] m = "LCP"  -> Whole(4000)
    [] m = "CLS"  -> Num(1, 4)
    [] m = "FID"  -> Whole(300)
    [] m = "TTI"  -> Whole(7300)
    [] m = "TBT"  -> Whole(600)
    [] m = "TTFB" -> Whole(1800)

\* The three evaluation strings of webVitals.ts.
Good == "good"                    \* '良好'
NeedsImprovement == "needs-improvement"   \* '需要改进'
Poor == "poor"                    \* '较差'
Bands == {Good, NeedsImprovement, Poor}

\* Band with `<=` for `<`.
BandInclusive(m, v) ==
  IF Le(v, GoodBelow(m)) THEN Good
  ELSE IF Le(v, ImproveBelow(m)) THEN NeedsImprovement
  ELSE Poor

\* One block of evaluateWebVitals: the band of a present value.
Band(m, v) ==
  IF Lt(v, GoodBelow(m)) THEN Good
  ELSE IF Lt(v, ImproveBelow(m)) THEN NeedsImprovement
  ELSE Poor

\* evaluateWebVitals without its `!== null` guards: null compares as 0.
evaluateWebVitalsUnguarded(ms) ==
  [m \in Metrics |-> Band(m, ToNumber(ms[m]))]

evaluateWebVitals(ms) ==
  [m \in {n \in Metrics : ms[n] # Null} |-> Band(m, ms[m])]

\* The advice strings of generateWebVitalsRecommendations, one name per
\* distinct string of the source.
RecommendationList(m) ==
  CASE m = "FCP"  -> <<"optimize-server-response-time",        \* '优化服务器响应时间'
                       "remove-render-blocking-resources",     \* '移除阻塞渲染的资源'
                       "optimize-critical-rendering-path">>    \* '优化关键渲染路径'
    [] m = "LCP"  -> <<"optimize-largest-element-loading",     \* '优化最大内容元素的加载'
                       "lazy-load-images",                     \* '使用图片懒加载'
                       "optimize-server-response-time",        \* '优化服务器响应时间'
                       "preload-key-resources">>               \* '预加载关键资源'
    [] m = "CLS"  -> <<"set-explicit-width-and-height",        \* '为图片和视频元素设置明确的宽高'
                       "avoid-inserting-above-content",        \* '避免在已有内容上方插入内容'
                       "animate-with-transform">>              \* '使用transform动画代替影响布局的属性'
    [] m = "FID"  -> <<"reduce-javascript-execution-time",     \* '减少JavaScript执行时间'
                       "split-long-tasks",                     \* '拆分长任务'
                       "optimize-event-handlers">>             \* '优化事件处理程序'
    [] m = "TTI"  -> <<"reduce-javascript-size",               \* '减少JavaScript的体积'
                       "remove-unused-javascript",             \* '移除未使用的JavaScript'
                       "use-code-splitting",                   \* '使用代码分割'
                       "defer-non-critical-javascript">>       \* '延迟加载非关键JavaScript'
    [] m = "TBT"  -> <<"reduce-main-thread-work",              \* '减少主线程工作'
                       "reduce-javascript-execution-time",     \* '减少JavaScript执行时间'
                       "optimize-third-party-scripts">>        \* '优化第三方脚本的影响'
    [] m = "TTFB" -> <<"optimize-server-processing-time",      \* '优化服务器处理时间'
                       "use-cdn",                              \* '使用CDN'
                       "preconnect-to-required-origins",       \* '预连接到所需的源'
                       "use-caching">>                         \* '使用缓存'

\* evaluations.M: the band of M, or undefined when the mapping has no entry.
EvaluationOf(evals, m) == IF m \in DOMAIN evals THEN evals[m] ELSE "undefined"

\* generateWebVitalsRecommendations without its `!== null` tests.
generateWebVitalsRecommendationsUnguarded(ms, evals) ==
  [m \in {n \in Metrics : EvaluationOf(evals, n) # Good} |-> RecommendationList(m)]

\* Lines 143-213 of webVitals.ts: one `if` per metric.
generateWebVitalsRecommendations(ms, evals) ==
  [m \in {n \in Metrics : ms[n] # Null /\ EvaluationOf(evals, n) # Good}
     |-> RecommendationList(m)]

-----------------------------------------------------------------------------
(* comparisonReporter.ts (src/unnamed/part_000) *)

\* Lines 36-51: the ComparisonData of two TestResults.
ComparisonData(baselineResults, currentResults) ==
  [baseline |-> [url |-> baselineResults.url,
                 scores |-> baselineResults.scores,
                 webVitals |-> baselineResults.webVitals],
   current  |-> [url |-> currentResults.url,
                 scores |-> currentResults.scores,
                 webVitals |-> currentResults.webVitals]]

\* `currentScores[category] || 0`: a category without a score counts as 0.
ScoreOrZero(currentScores, category) ==
  IF category \in DOMAIN currentScores THEN currentScores[category] ELSE Whole(0)

\* calculateScoreDiffs going over the categories of both results, a category
\* without a baseline score counting as 0 there.
calculateScoreDiffsAllCategories(baselineScores, currentScores) ==
  [c \in (DOMAIN baselineScores) \cup (DOMAIN currentScores) |->
     Sub(ScoreOrZero(currentScores, c), ScoreOrZero(baselineScores, c))]

\* Lines 456-465.
calculateScoreDiffs(baselineScores, currentScores) ==
  [c \in DOMAIN baselineScores |->
     Sub(ScoreOrZero(currentScores, c), baselineScores[c])]

\* Line 266 with `>=` and `<=` for `>` and `<`.
ScoreDiffClassInclusive(diff) ==
  IF Le(Whole(1), diff) THEN "improvement"
  ELSE IF Le(diff, Whole(-1)) THEN "regression"
  ELSE "neutral"

\* Line 266: the class of a category's row.
ScoreDiffClass(diff) ==
  IF Lt(Whole(1), diff) THEN "improvement"
  ELSE IF Lt(diff, Whole(-1)) THEN "regression"
  ELSE "neutral"

\* Lines 263-278: the rows of the category table, one per baseline category.
ScoreRows(data) ==
  [c \in DOMAIN data.baseline.scores |->
     LET currentScore == ScoreOrZero(data.current.scores, c)
         diff == Sub(currentScore, data.baseline.scores[c])
     IN [score |-> data.baseline.scores[c], currentScore |-> currentScore,
         diff |-> diff, diffClass |-> ScoreDiffClass(diff)]]

\* Lines 478-479 without the test of a zero baseline: x / 0 is Infinity, -Infinity
\* or NaN, written here as the fractions 1/0, -1/0 and 0/0.
PercentageDiffUnguarded(absoluteDiff, baselineValue) ==
  IF baselineValue # Whole(0) THEN Mul(Div(absoluteDiff, baselineValue), Whole(100))
  ELSE <<absoluteDiff[1], 0>>

\* Lines 478-479 (and 515-516): the percentage of a difference.
PercentageDiff(absoluteDiff, baselineValue) ==
  IF baselineValue # Whole(0) THEN Mul(Div(absoluteDiff, baselineValue), Whole(100))
  ELSE Whole(0)

\* calculateWebVitalsDiffs with `||` for `&&`: null counts as 0 in arithmetic.
calculateWebVitalsDiffsEitherPresent(baselineWebVitals, currentWebVitals) ==
  [key \in {k \in DOMAIN baselineWebVitals :
              baselineWebVitals[k] # Null \/ currentWebVitals[k] # Null} |->
     LET absoluteDiff == Sub(ToNumber(currentWebVitals[key]),
                             ToNumber(baselineWebVitals[key]))
     IN [absolute |-> absoluteDiff,
         percentage |-> PercentageDiff(absoluteDiff, ToNumber(baselineWebVitals[key])),
         improved |-> Lt(absoluteDiff, Whole(0))]]

\* calculateWebVitalsDiffs with `improved = absoluteDiff > 0`.
calculateWebVitalsDiffsHigherIsBetter(baselineWebVitals, currentWebVitals) ==
  [key \in {k \in DOMAIN baselineWebVitals :
              baselineWebVitals[k] # Null /\ currentWebVitals[k] # Null} |->
     LET absoluteDiff == Sub(currentWebVitals[key], baselineWebVitals[key])
     IN [absolute |-> absoluteDiff,
         percentage |-> PercentageDiff(absoluteDiff, baselineWebVitals[key]),
         improved |-> Lt(Whole(0), absoluteDiff)]]

\* Lines 470-493.
calculateWebVitalsDiffs(baselineWebVitals, currentWebVitals) ==
  [key \in {k \in DOMAIN baselineWebVitals :
              baselineWebVitals[k] # Null /\ currentWebVitals[k] # Null} |->
     LET absoluteDiff == Sub(currentWebVitals[key], baselineWebVitals[key])
     IN [absolute |-> absoluteDiff,
         percentage |-> PercentageDiff(absoluteDiff, baselineWebVitals[key]),
         improved |-> Lt(absoluteDiff, Whole(0))]]

\* Lines 498-548: the rows of the metric table, in the order of webVitalsInfo.
generateWebVitalsComparisonRows(baselineWebVitals, currentWebVitals) ==
  LET Shown(key) == baselineWebVitals[key] # Null /\ currentWebVitals[key] # Null
      keys == SelectSeq(MetricNames, Shown)
      Row(key) ==
        LET diff == Sub(currentWebVitals[key], baselineWebVitals[key])
        IN [key |-> key, diff |-> diff,
            percentDiff |-> PercentageDiff(diff, baselineWebVitals[key]),
            diffClass |-> IF Lt(diff, Whole(0)) THEN "improvement"
                          ELSE IF Lt(Whole(0), diff) THEN "regression"
                          ELSE "neutral"]
  IN [j \in 1..Len(keys) |-> Row(keys[j])]

\* generateSummaryStats counting a metric as regressed on any positive change.
generateSummaryStatsSymmetric(scoreDiffs, webVitalsDiffs) ==
  [improvedScores |->
     Cardinality({c \in DOMAIN scoreDiffs : Lt(Whole(1), scoreDiffs[c])}),
   regressedScores |->
     Cardinality({c \in DOMAIN scoreDiffs : Lt(scoreDiffs[c], Whole(-1))}),
   improvedWebVitals |->
     Cardinality({m \in DOMAIN webVitalsDiffs : webVitalsDiffs[m].improved}),
   regressedWebVitals |->
     Cardinality({m \in DOMAIN webVitalsDiffs :
                    Lt(Whole(0), webVitalsDiffs[m].absolute)})]

\* Lines 553-582: the four counts of the summary; each loop is an if / else-if.
generateSummaryStats(scoreDiffs, webVitalsDiffs) ==
  [improvedScores |->
     Cardinality({c \in DOMAIN scoreDiffs : Lt(Whole(1), scoreDiffs[c])}),
   regressedScores |->
     Cardinality({c \in DOMAIN scoreDiffs :
                    /\ ~Lt(Whole(1), scoreDiffs[c])
                    /\ Lt(scoreDiffs[c], Whole(-1))}),
   improvedWebVitals |->
     Cardinality({m \in DOMAIN webVitalsDiffs : webVitalsDiffs[m].improved}),
   regressedWebVitals |->
     Cardinality({m \in DOMAIN webVitalsDiffs :
                    /\ ~webVitalsDiffs[m].improved
                    /\ Lt(Whole(1), MathAbs(webVitalsDiffs[m].percentage))})]

\* Lines 355-357: the metrics plotted, those with a value on both sides.
webVitalsKeys(baselineWebVitals, currentWebVitals) ==
  SelectSeq(MetricNames,
            LAMBDA key : baselineWebVitals[key] # Null /\ currentWebVitals[key] # Null)

\* Lines 376-385: the reference ceiling of each metric but CLS. Each is
\* truthy, so `referenceValues[key] || maxValues[key]` is the ceiling.
referenceValues(key) ==
  CASE key = "FCP"  -> Whole(3000)
    [] key = "LCP"  -> Whole(4000)
    [] key = "TTI"  -> Whole(7300)
    [] key = "TBT"  -> Whole(600)
    [] key = "TTFB" -> Whole(1800)
    [] key = "FID"  -> Whole(300)

\* Math.max(0, Math.min(100, x)).
Clamp(x) ==
  IF Lt(x, Whole(0)) THEN Whole(0) ELSE IF Lt(Whole(100), x) THEN Whole(100) ELSE x

\* 100 - (value / ceiling * 100).
Goodness(value, ceiling) == Sub(Whole(100), Mul(Div(value, ceiling), Whole(100)))

\* Lines 369-392: CLS is measured against 0.25 and left as computed; the
\* other metrics are measured against their ceiling and brought into 0..100.
Normalized(key, value) ==
  IF key = "CLS" THEN Goodness(value, Num(1, 4))
  ELSE Clamp(Goodness(value, referenceValues(key)))

\* Lines 353-413: the radar chart's labels and its two data sets.
RadarChart(baselineWebVitals, currentWebVitals) ==
  LET keys == webVitalsKeys(baselineWebVitals, currentWebVitals)
      plotted == {keys[j] : j \in 1..Len(keys)}
  IN [labels |-> keys,
      normalizedBaseline |->
        [key \in plotted |-> Normalized(key, baselineWebVitals[key])],
      normalizedCurrent |->
        [key \in plotted |-> Normalized(key, currentWebVitals[key])]]

\* Lines 64-450: what the page shows of the comparison.
generateComparisonHtml(data) ==
  LET scoreDiffs == calculateScoreDiffs(data.baseline.scores, data.current.scores)
      webVitalsDiffs == calculateWebVitalsDiffs(data.baseline.webVitals,
                                                data.current.webVitals)
  IN [scoreDiffs |-> scoreDiffs,
      webVitalsDiffs |-> webVitalsDiffs,
      summary |-> generateSummaryStats(scoreDiffs, webVitalsDiffs),
      scoreRows |-> ScoreRows(data),
      webVitalsRows |-> generateWebVitalsComparisonRows(data.baseline.webVitals,
                                                        data.current.webVitals),
      radar |-> RadarChart(data.baseline.webVitals, data.current.webVitals)]

-----------------------------------------------------------------------------
(* Bounds of the model *)

\* The largest --count given explicitly on the command line.
MaxRuns == 3
\* The latest timestamp of a history entry written by an earlier session.
MaxPriorTime == 3
\* The largest number of audits in an audits object handed to extractWebVitals.
MaxAudits == 3
\* How many units past its upper threshold a metric's value is raised.
BandMargin == 2
\* The largest number of metrics, or of categories, that vary in a comparison.
MaxCompared == 2

-----------------------------------------------------------------------------
(* The configuration: src/README.md (index.ts), lines 188-270 *)

\* The default of --count and the fallback of `argv.count || 5`.
DefaultCount == 5

DefaultCategories == <<"performance", "accessibility", "best-practices", "seo">>

Url == "https://playwright.dev"
CompareUrl == "https://competitor.com"

\* The value of --config when it is given.
ConfigPath == "my-config.json"

\* What yargs hands back. url, count, device and save-history have defaults,
\* so they are always set; config and compare are strings, "" standing for
\* the falsy values (not given, or empty).
Argvs ==
  [url : {Url},
   count : (1..MaxRuns) \cup {DefaultCount},
   device : {"Desktop"},
   config : {"", ConfigPath},
   compare : {"", CompareUrl},
   saveHistory : BOOLEAN]

\* The content of a --config file that parses: any subset of the keys of
\* TestConfig. A file's values replace the command line's.
EmptyObj == [k \in {} |-> Null]
FileConfigs ==
  { EmptyObj,
    [k \in {"testCount"} |-> 0],
    [k \in {"categories"} |-> <<"performance", "pwa">>] }

\* The file at the --config path: it exists or not, its content parses as
\* JSON or not, and if it does the content is an object.
ConfigFile(exists, parses, content) ==
  [exists |-> exists, parses |-> parses, content |-> content]
NoConfigFile == ConfigFile(FALSE, FALSE, EmptyObj)

SeqToSet(q) == {q[k] : k \in 1..Len(q)}

\* `a || b` on a count: 0 is falsy.
OrDefault(n, d) == IF n = 0 THEN d ELSE n
\* `a || b` on a string: '' is falsy.
OrDefaultString(str, d) == IF str = "" THEN d ELSE str

\* Lines 261-266: the throttling profile of the object literal.
DefaultThrottling ==
  [cpuSlowdownMultiplier |-> Whole(4), downloadThroughputKbps |-> Num(16384, 10),
   uploadThroughputKbps |-> Whole(768), rttMs |-> Whole(150)]

\* An entry of the error log.
ErrorAt(step) == [step |-> step]

\* Lines 241-252: fileConfig is read only if --config is given and the file
\* exists; a read that throws is logged and leaves fileConfig = {}.
LoadFileConfig(args, file) ==
  IF args.config # "" /\ file.exists
  THEN IF file.parses
       THEN [fileConfig |-> file.content, errors |-> <<>>]
       ELSE [fileConfig |-> EmptyObj, errors |-> <<ErrorAt("readConfig")>>]
  ELSE [fileConfig |-> EmptyObj, errors |-> <<>>]

\* MergeConfig with the spread first: the command line wins over the file.
MergeConfigFileFirst(args, fileConfig) ==
  LET base == [url |-> OrDefaultString(args.url, Url),
               testCount |-> OrDefault(args.count, DefaultCount),
               categories |-> DefaultCategories,
               device |-> OrDefaultString(args.device, "Desktop"),
               throttling |-> DefaultThrottling,
               compareUrl |-> args.compare,
               saveHistory |-> args.saveHistory]
  IN [k \in (DOMAIN base) \cup (DOMAIN fileConfig) |->
        IF k \in DOMAIN base THEN base[k] ELSE fileConfig[k]]

\* Lines 255-270: the object literal, then `...fileConfig` over it.
MergeConfig(args, fileConfig) ==
  LET base == [url |-> OrDefaultString(args.url, Url),
               testCount |-> OrDefault(args.count, DefaultCount),
               categories |-> DefaultCategories,
               device |-> OrDefaultString(args.device, "Desktop"),
               throttling |-> DefaultThrottling,
               compareUrl |-> args.compare,
               saveHistory |-> args.saveHistory]
  IN [k \in (DOMAIN base) \cup (DOMAIN fileConfig) |->
        IF k \in DOMAIN fileConfig THEN fileConfig[k] ELSE base[k]]

-----------------------------------------------------------------------------
(* The audit engine, as runLighthouseTest sees it *)

Audit(score, numericValue) == [score |-> score, numericValue |-> numericValue]
Category(score) == [score |-> score]
One == Whole(1)

\* Audit ids for which id.startsWith('accessibility/') holds (line 394).
AccessibilityIds == {"accessibility/color-contrast"}

\* Restriction of an object to some of its keys.
Pick(obj, keys) == [k \in (DOMAIN obj) \cap keys |-> obj[k]]

Obj1(k, v) == [x \in {k} |-> v]

LhrFast ==
  [categories |->
     Obj1("performance", Category(Num(4, 5))) @@ Obj1("accessibility", Category(One)) @@
     Obj1("best-practices", Category(One)) @@ Obj1("seo", Category(One)),
   audits |->
     Obj1("first-contentful-paint", Audit(One, Whole(900))) @@
     Obj1("largest-contentful-paint", Audit(One, Whole(2499))) @@
     Obj1("cumulative-layout-shift", Audit(One, Num(1, 20))) @@
     Obj1("max-potential-fid", Audit(One, Whole(50))) @@
     Obj1("interactive", Audit(One, Whole(3000))) @@
     Obj1("total-blocking-time", Audit(One, Whole(100))) @@
     Obj1("server-response-time", Audit(One, Whole(0))) @@
     Obj1("accessibility/color-contrast", Audit(One, Undefined))]

LhrPartial ==
  [categories |->
     Obj1("performance", Category(One)) @@ Obj1("accessibility", Category(Null)) @@
     Obj1("best-practices", Category(One)),
   audits |->
     Obj1("first-contentful-paint", Audit(One, Whole(0))) @@
     Obj1("cumulative-layout-shift", Audit(Null, Num(1, 10))) @@
     Obj1("max-potential-fid", Audit(One, Undefined)) @@
     Obj1("interactive", Audit(Num(1, 2), Whole(3800))) @@
     Obj1("total-blocking-time", Audit(Num(1, 2), Whole(599))) @@
     Obj1("server-response-time", Audit(Whole(0), Whole(1800))) @@
     Obj1("accessibility/color-contrast", Audit(Whole(0), Undefined))]

LhrSlow ==
  [categories |->
     Obj1("performance", Category(Num(3, 5))) @@ Obj1("accessibility", Category(Num(1, 2))) @@
     Obj1("best-practices", Category(One)) @@ Obj1("seo", Category(Whole(0))) @@
     Obj1("pwa", Category(Num(1, 2))),
   audits |->
     Obj1("first-contentful-paint", Audit(Whole(0), Whole(3000))) @@
     Obj1("largest-contentful-paint", Audit(Whole(0), Whole(4000))) @@
     Obj1("cumulative-layout-shift", Audit(Whole(0), Num(1, 4))) @@
     Obj1("max-potential-fid", Audit(Whole(0), Whole(300))) @@
     Obj1("interactive", Audit(Whole(0), Whole(7300))) @@
     Obj1("total-blocking-time", Audit(Whole(0), Whole(600))) @@
     Obj1("server-response-time", Audit(Whole(0), Whole(1801)))]

\* The reports the engine may produce before onlyCategories is applied.
EngineLhrs == {LhrFast, LhrPartial, LhrSlow}

\* lighthouse(url, options): some report, holding only the categories asked for.
lighthouse(options) ==
  {[lhr |-> [categories |-> Pick(r.categories, SeqToSet(options.onlyCategories)),
             audits |-> r.audits]] : r \in EngineLhrs}

\* The port a launched Chrome listens on.
Ports == {9222}

-----------------------------------------------------------------------------
(* runLighthouseTest: src/README.md (index.ts), lines 188-580 *)

NoResult == [none |-> TRUE]

\* Lines 290-326: the options object handed to every audit of the run loop.
Options == [onlyCategories |-> config.categories, port |-> chrome.port]

\* Lines 541-542: the comparison audit's copy of the options.
CompareOptions == [Options EXCEPT !.port = chrome.port]

\* A failure thrown inside the try block: control goes to the catch of line 574.
Throw(step) == pc' = "catch" /\ failedAt' = step

InitSession ==
  /\ pc = "start"
  /\ config = EmptyObj
  /\ chrome = [launches |-> 0, port |-> 0, kills |-> 0]
  /\ i = 0
  /\ inFlight = 0
  /\ auditLog = <<>>
  /\ runnerResult = NoResult
  /\ runLog = <<>>
  /\ scores = EmptyObj
  /\ webVitalsResults = <<>>
  /\ avgScores = NoResult
  /\ testResult = NoResult
  /\ files = {}
  /\ historyData = <<>>
  /\ compareTestResult = NoResult
  /\ browser = "none"
  /\ logged = <<>>
  /\ failedAt = ""
  /\ exitCode = 0

\* Lines 235-270: parse the command line, load the file, merge.
Configure ==
  /\ pc = "start"
  /\ LET loaded == LoadFileConfig(argv, configFile) IN
       /\ logged' = logged \o loaded.errors
       /\ config' = MergeConfig(argv, loaded.fileConfig)
  /\ pc' = "launch"
  /\ UNCHANGED <<envVars, helperVars, chrome, i, inFlight, auditLog, runnerResult, runLog, scores,
                 webVitalsResults, avgScores, testResult, files, historyDir,
                 historyData, compareTestResult, browser, failedAt, exitCode>>

\* Lines 279-281: chromeLauncher.launch, before the try block. Its rejection
\* leaves runLighthouseTest and reaches the handler of line 603.
Launch ==
  /\ pc = "launch"
  /\ \/ \E p \in Ports :
          /\ chrome' = [launches |-> chrome.launches + 1, port |-> p, kills |-> 0]
          /\ pc' = "setup"
     \/ /\ pc' = "toplevel"
        /\ UNCHANGED chrome
  /\ UNCHANGED <<envVars, helperVars, config, i, inFlight, auditLog, runnerResult, runLog, scores,
                 webVitalsResults, avgScores, testResult, files, historyDir,
                 historyData, compareTestResult, browser, logged, failedAt, exitCode>>

\* Lines 330-335: the score lists, one per default category.
InitialScores == [c \in SeqToSet(DefaultCategories) |-> <<>>]

\* Lines 286-360: the options, the score lists, the four ensureDir calls, the
\* empty result list, the progress bar and the loop's `let i = 1`.
Setup ==
  /\ pc = "setup"
  /\ \/ /\ scores' = InitialScores
        /\ webVitalsResults' = <<>>
        /\ i' = 1
        /\ pc' = "loop"
        /\ UNCHANGED failedAt
     \/ /\ Throw("ensureDir")
        /\ scores' = InitialScores
        /\ UNCHANGED <<webVitalsResults, i>>
  /\ UNCHANGED <<envVars, helperVars, config, chrome, inFlight, auditLog, runnerResult, runLog,
                 avgScores, testResult, files, historyDir,
                 historyData, compareTestResult, browser, logged, exitCode>>

\* Lines 360-365: the loop test and the call of lighthouse(config.url, options).
\* The call of lighthouse() made without awaiting the call before it.
StartRunEager ==
  /\ pc \in {"loop", "await_audit"}
  /\ i <= config.testCount
  /\ inFlight' = inFlight + 1
  /\ auditLog' = Append(auditLog, [url |-> config.url, port |-> Options.port, run |-> i])
  /\ pc' = "await_audit"
  /\ i' = IF pc = "await_audit" THEN i + 1 ELSE i
  /\ UNCHANGED <<envVars, helperVars, config, chrome, runnerResult, runLog, scores,
                 webVitalsResults, avgScores, testResult, files, historyDir,
                 historyData, compareTestResult, browser, logged, failedAt, exitCode>>

StartRun ==
  /\ pc = "loop"
  /\ i <= config.testCount
  /\ inFlight' = inFlight + 1
  /\ auditLog' = Append(auditLog, [url |-> config.url, port |-> Options.port, run |-> i])
  /\ pc' = "await_audit"
  /\ UNCHANGED <<envVars, helperVars, config, chrome, i, runnerResult, runLog, scores,
                 webVitalsResults, avgScores, testResult, files, historyDir,
                 historyData, compareTestResult, browser, logged, failedAt, exitCode>>

\* A rejected audit is skipped and the loop goes on with the next run.
AuditReturnsSkipsFailure ==
  /\ pc = "await_audit"
  /\ inFlight' = inFlight - 1
  /\ \/ \E r \in lighthouse(Options) :
          /\ runnerResult' = r
          /\ runLog' = Append(runLog, r.lhr)
          /\ pc' = "save_report"
          /\ UNCHANGED <<i, failedAt>>
     \/ /\ i' = i + 1
        /\ pc' = "loop"
        /\ UNCHANGED <<runnerResult, runLog, failedAt>>
  /\ UNCHANGED <<envVars, helperVars, config, chrome, auditLog, scores,
                 webVitalsResults, avgScores, testResult, files, historyDir,
                 historyData, compareTestResult, browser, logged, exitCode>>

\* Line 365: the awaited audit resolves with a result, or rejects.
AuditReturns ==
  /\ pc = "await_audit"
  /\ inFlight' = inFlight - 1
  /\ \/ \E r \in lighthouse(Options) :
          /\ runnerResult' = r
          /\ runLog' = Append(runLog, r.lhr)
          /\ pc' = "save_report"
          /\ UNCHANGED failedAt
     \/ /\ Throw("audit")
        /\ UNCHANGED <<runnerResult, runLog>>
  /\ UNCHANGED <<envVars, helperVars, config, chrome, i, auditLog, scores,
                 webVitalsResults, avgScores, testResult, files, historyDir,
                 historyData, compareTestResult, browser, logged, exitCode>>

\* Lines 367-372: the run's own Lighthouse HTML report.
SaveRunReport ==
  /\ pc = "save_report"
  /\ \/ /\ files' = files \cup {[kind |-> "lighthouse-report", run |-> i]}
        /\ pc' = "save_vitals"
        /\ UNCHANGED failedAt
     \/ /\ Throw("writeFile")
        /\ UNCHANGED files
  /\ UNCHANGED <<envVars, helperVars, config, chrome, i, inFlight, auditLog, runnerResult, runLog, scores,
                 webVitalsResults, avgScores, testResult, historyDir,
                 historyData, compareTestResult, browser, logged, exitCode>>

\* Lines 374-387: extract the metrics, push them, write them as JSON.
SaveWebVitals ==
  /\ pc = "save_vitals"
  /\ LET webVitalsResult == [url |-> config.url,
                             metrics |-> extractWebVitals(runnerResult.lhr)]
     IN /\ webVitalsResults' = Append(webVitalsResults, webVitalsResult)
        /\ \/ /\ files' = files \cup {[kind |-> "web-vitals", run |-> i]}
              /\ pc' = "save_issues"
              /\ UNCHANGED failedAt
           \/ /\ Throw("writeVitals")
              /\ UNCHANGED files
  /\ UNCHANGED <<envVars, helperVars, config, chrome, i, inFlight, auditLog, runnerResult, runLog, scores,
                 avgScores, testResult, historyDir,
                 historyData, compareTestResult, browser, logged, exitCode>>

\* Lines 392-404: the accessibility audits scored neither 1 nor null.
AccessibilityIssues(lhr) ==
  {id \in (DOMAIN lhr.audits) \cap AccessibilityIds :
     lhr.audits[id].score # One /\ lhr.audits[id].score # Null}

\* Lines 389-424: the accessibility issues file, written only when there are issues.
SaveAccessibilityIssues ==
  /\ pc = "save_issues"
  /\ IF AccessibilityIssues(runnerResult.lhr) # {}
     THEN \/ /\ files' = files \cup {[kind |-> "accessibility-issues", run |-> i]}
             /\ pc' = "collect"
             /\ UNCHANGED failedAt
          \/ /\ Throw("writeIssues")
             /\ UNCHANGED files
     ELSE /\ pc' = "collect"
          /\ UNCHANGED <<files, failedAt>>
  /\ UNCHANGED <<envVars, helperVars, config, chrome, i, inFlight, auditLog, runnerResult, runLog, scores,
                 webVitalsResults, avgScores, testResult, historyDir,
                 historyData, compareTestResult, browser, logged, exitCode>>

\* Line 430: `score * 100`.
Times100(score) == Mul(ToNumber(score), Whole(100))

\* Lines 428-432: push each configured category's score. scores[category] is
\* undefined for a category outside the four defaults, and the push throws a
\* TypeError: the pushes already made stay.
RECURSIVE PushScores(_, _, _)
PushScores(sc, categories, lhr) ==
  IF categories = <<>> THEN [scores |-> sc, threw |-> FALSE]
  ELSE LET c == Head(categories) IN
       IF Lookup(lhr.categories, c) = UndefinedObj
         THEN PushScores(sc, Tail(categories), lhr)
       ELSE IF c \notin DOMAIN sc THEN [scores |-> sc, threw |-> TRUE]
       ELSE PushScores([sc EXCEPT ![c] = Append(@, Times100(lhr.categories[c].score))],
                       Tail(categories), lhr)

\* Lines 426-456: collect the scores, log them, end the iteration (i++).
CollectScores ==
  /\ pc = "collect"
  /\ LET pushed == PushScores(scores, config.categories, runnerResult.lhr)
     IN /\ scores' = pushed.scores
        /\ IF pushed.threw
           THEN /\ Throw("scores.push")
                /\ UNCHANGED <<i, runnerResult>>
           ELSE /\ i' = i + 1
                /\ runnerResult' = NoResult
                /\ pc' = "loop"
                /\ UNCHANGED failedAt
  /\ UNCHANGED <<envVars, helperVars, config, chrome, inFlight, auditLog, runLog,
                 webVitalsResults, avgScores, testResult, files, historyDir,
                 historyData, compareTestResult, browser, logged, exitCode>>

RECURSIVE Sum(_)
Sum(list) == IF list = <<>> THEN Whole(0) ELSE Add(Head(list), Sum(Tail(list)))

\* The sum divided by the number of runs, not of scores.
MeanOfAllRuns(list) == DivInt(Sum(list), config.testCount)

\* The reduce of line 466 without its division.
MeanUndivided(list) == Sum(list)

\* Line 466: reduce(sum) / length.
Mean(list) == DivInt(Sum(list), Len(list))

\* Lines 464-470: `scores[category].length` throws a TypeError for a category
\* that has no score list.
AggregateThrows(sc, categories) == \E c \in SeqToSet(categories) : c \notin DOMAIN sc

AverageScores(sc, categories) ==
  [c \in {x \in SeqToSet(categories) : Len(sc[x]) > 0} |-> Mean(sc[c])]

\* The loop test written `i < config.testCount`: the loop ends one run early.
AggregateOneRunEarly ==
  /\ pc = "loop"
  /\ ~(i < config.testCount)
  /\ IF AggregateThrows(scores, config.categories)
     THEN /\ Throw("scores.length")
          /\ UNCHANGED avgScores
     ELSE /\ avgScores' = AverageScores(scores, config.categories)
          /\ pc' = "screenshot"
          /\ UNCHANGED failedAt
  /\ UNCHANGED <<envVars, helperVars, config, chrome, i, inFlight, auditLog, runnerResult, runLog, scores,
                 webVitalsResults, testResult, files, historyDir,
                 historyData, compareTestResult, browser, logged, exitCode>>

\* Lines 360, 458-470: the loop test fails; the progress bar completes and the
\* means are computed.
Aggregate ==
  /\ pc = "loop"
  /\ ~(i <= config.testCount)
  /\ IF AggregateThrows(scores, config.categories)
     THEN /\ Throw("scores.length")
          /\ UNCHANGED avgScores
     ELSE /\ avgScores' = AverageScores(scores, config.categories)
          /\ pc' = "screenshot"
          /\ UNCHANGED failedAt
  /\ UNCHANGED <<envVars, helperVars, config, chrome, i, inFlight, auditLog, runnerResult, runLog, scores,
                 webVitalsResults, testResult, files, historyDir,
                 historyData, compareTestResult, browser, logged, exitCode>>

\* Line 474: chromium.launch().
LaunchBrowser ==
  /\ pc = "screenshot"
  /\ \/ /\ browser' = "open"
        /\ pc' = "capture"
        /\ UNCHANGED failedAt
     \/ /\ Throw("chromium.launch")
        /\ UNCHANGED browser
  /\ UNCHANGED <<envVars, helperVars, config, chrome, i, inFlight, auditLog, runnerResult, runLog, scores,
                 webVitalsResults, avgScores, testResult, files, historyDir,
                 historyData, compareTestResult, logged, exitCode>>

\* A failed screenshot that is passed over: the session goes on.
ScreenshotFailureIgnored ==
  /\ pc = "capture"
  /\ \/ /\ files' = files \cup {[kind |-> "screenshot"]}
        /\ browser' = "closed"
        /\ pc' = "result"
        /\ UNCHANGED failedAt
     \/ /\ failedAt' = "screenshot"
        /\ pc' = "result"
        /\ UNCHANGED <<files, browser>>
  /\ UNCHANGED <<envVars, helperVars, config, chrome, i, inFlight, auditLog, runnerResult, runLog, scores,
                 webVitalsResults, avgScores, testResult, historyDir,
                 historyData, compareTestResult, logged, exitCode>>

\* Lines 475-487: context, page, goto, screenshot, then browser.close().
Screenshot ==
  /\ pc = "capture"
  /\ \/ /\ files' = files \cup {[kind |-> "screenshot"]}
        /\ browser' = "closed"
        /\ pc' = "result"
        /\ UNCHANGED failedAt
     \/ /\ Throw("screenshot")
        /\ UNCHANGED <<files, browser>>
  /\ UNCHANGED <<envVars, helperVars, config, chrome, i, inFlight, auditLog, runnerResult, runLog, scores,
                 webVitalsResults, avgScores, testResult, historyDir,
                 historyData, compareTestResult, logged, exitCode>>

\* The time of this session, between those of the earlier sessions' entries.
SessionTime == MaxPriorTime - 1

\* The first element taken for the last.
LastMetricsFirstRun(results) == results[1].metrics

\* Line 495: webVitalsResults[webVitalsResults.length - 1].metrics.
LastMetrics(results) == results[Len(results)].metrics

\* Lines 489-496: the aggregated result. With no run, the last element is
\* undefined and reading its metrics throws a TypeError.
BuildTestResult ==
  /\ pc = "result"
  /\ IF webVitalsResults = <<>>
     THEN /\ Throw("testResult")
          /\ UNCHANGED testResult
     ELSE /\ testResult' = [url |-> config.url,
                            timestamp |-> SessionTime,
                            scores |-> avgScores,
                            webVitals |-> LastMetrics(webVitalsResults)]
          /\ pc' = IF config.saveHistory THEN "save_history" ELSE "detailed"
          /\ UNCHANGED failedAt
  /\ UNCHANGED <<envVars, helperVars, config, chrome, i, inFlight, auditLog, runnerResult, runLog, scores,
                 webVitalsResults, avgScores, files, historyDir,
                 historyData, compareTestResult, browser, logged, exitCode>>

\* A file of the history directory: its name carries the time it was written.
HistoryFile(t, readable, data) == [name |-> t, readable |-> readable, data |-> data]

PriorEntry(t) ==
  [url |-> Url, timestamp |-> t, scores |-> EmptyObj, webVitals |-> extractWebVitals(LhrFast)]

\* What earlier sessions left in the history directory: nothing, or two
\* entries (one later than this session's) and a file that cannot be read.
PriorHistories ==
  { {},
    { HistoryFile(MaxPriorTime, TRUE, PriorEntry(MaxPriorTime)),
      HistoryFile(1, TRUE, PriorEntry(1)),
      HistoryFile(0, FALSE, NoResult) } }

\* The history directory emptied before the entry is written.
SaveHistoryOverwrites ==
  /\ pc = "save_history"
  /\ \/ /\ historyDir' = {HistoryFile(SessionTime, TRUE, testResult)}
        /\ pc' = "load_history"
        /\ UNCHANGED failedAt
     \/ /\ Throw("writeHistory")
        /\ UNCHANGED historyDir
  /\ UNCHANGED <<envVars, helperVars, config, chrome, i, inFlight, auditLog, runnerResult, runLog, scores,
                 webVitalsResults, avgScores, testResult, files,
                 historyData, compareTestResult, browser, logged, exitCode>>

\* Lines 499-502: the history entry of this session.
SaveHistory ==
  /\ pc = "save_history"
  /\ \/ /\ historyDir' = {f \in historyDir : f.name # SessionTime}
                           \cup {HistoryFile(SessionTime, TRUE, testResult)}
        /\ pc' = "load_history"
        /\ UNCHANGED failedAt
     \/ /\ Throw("writeHistory")
        /\ UNCHANGED historyDir
  /\ UNCHANGED <<envVars, helperVars, config, chrome, i, inFlight, auditLog, runnerResult, runLog, scores,
                 webVitalsResults, avgScores, testResult, files,
                 historyData, compareTestResult, browser, logged, exitCode>>

\* The orders in which readdir may list a directory.
Listings(dir) ==
  {q \in [1..Cardinality(dir) -> dir] : \A a, b \in 1..Cardinality(dir) : q[a] = q[b] => a = b}

\* ReadAll giving up at the first file that cannot be read.
RECURSIVE ReadAllUntilFailure(_)
ReadAllUntilFailure(listing) ==
  IF listing = <<>> THEN <<>>
  ELSE IF Head(listing).readable
       THEN <<Head(listing).data>> \o ReadAllUntilFailure(Tail(listing))
  ELSE <<>>

\* Lines 508-517: read every listed file; a file that cannot be read is logged
\* and skipped.
RECURSIVE ReadAll(_)
ReadAll(listing) ==
  IF listing = <<>> THEN <<>>
  ELSE IF Head(listing).readable THEN <<Head(listing).data>> \o ReadAll(Tail(listing))
  ELSE ReadAll(Tail(listing))

\* Lines 513-515: one logger.error per file whose read threw.
RECURSIVE ReadErrors(_)
ReadErrors(listing) ==
  IF listing = <<>> THEN <<>>
  ELSE IF Head(listing).readable THEN ReadErrors(Tail(listing))
  ELSE <<[step |-> "readJSON", file |-> Head(listing).name]>> \o ReadErrors(Tail(listing))

\* Line 520 left out: the entries stay in the order they were read.
SortByTimestampSkipped(list) == list

\* Line 520: a stable sort by ascending timestamp.
RECURSIVE Insert(_, _)
Insert(sorted, e) ==
  IF sorted = <<>> THEN <<e>>
  ELSE IF e.timestamp < Head(sorted).timestamp THEN <<e>> \o sorted
  ELSE <<Head(sorted)>> \o Insert(Tail(sorted), e)

RECURSIVE SortByTimestamp(_)
SortByTimestamp(list) ==
  IF list = <<>> THEN <<>>
  ELSE Insert(SortByTimestamp(SubSeq(list, 1, Len(list) - 1)), list[Len(list)])

\* Lines 504-523: list the directory, read the entries, sort them.
LoadHistory ==
  /\ pc = "load_history"
  /\ \/ \E listing \in Listings(historyDir) :
          /\ historyData' = SortByTimestamp(ReadAll(listing))
          /\ logged' = logged \o ReadErrors(listing)
          /\ pc' = IF Len(historyData') > 1 THEN "trend" ELSE "detailed"
          /\ UNCHANGED failedAt
     \/ /\ Throw("readdir")
        /\ UNCHANGED <<historyData, logged>>
  /\ UNCHANGED <<envVars, helperVars, config, chrome, i, inFlight, auditLog, runnerResult, runLog, scores,
                 webVitalsResults, avgScores, testResult, files, historyDir,
                 compareTestResult, browser, exitCode>>

\* Lines 523-526: generateTrendReport(historyData, outputDir).
TrendReport ==
  /\ pc = "trend"
  /\ \/ /\ files' = files \cup {[kind |-> "trend-report", historyData |-> historyData]}
        /\ pc' = "detailed"
        /\ UNCHANGED failedAt
     \/ /\ Throw("generateTrendReport")
        /\ UNCHANGED files
  /\ UNCHANGED <<envVars, helperVars, config, chrome, i, inFlight, auditLog, runnerResult, runLog, scores,
                 webVitalsResults, avgScores, testResult, historyDir,
                 historyData, compareTestResult, browser, logged, exitCode>>

\* src/src/reportGenerator.ts, lines 34-45: the data of the detailed report.
ReportData(results, vitalsResults) ==
  [url |-> results.url,
   scores |-> results.scores,
   webVitals |-> LastMetrics(vitalsResults),
   evaluations |-> evaluateWebVitals(LastMetrics(vitalsResults)),
   recommendations |-> generateWebVitalsRecommendations(
                         LastMetrics(vitalsResults),
                         evaluateWebVitals(LastMetrics(vitalsResults)))]

\* Lines 529-534: generateDetailedReport, then the test of config.compareUrl.
DetailedReport ==
  /\ pc = "detailed"
  /\ \/ /\ files' = files \cup {[kind |-> "detailed-report",
                                  data |-> ReportData(testResult, webVitalsResults)]}
        /\ pc' = IF config.compareUrl # "" THEN "compare" ELSE "finally"
        /\ UNCHANGED failedAt
     \/ /\ Throw("generateDetailedReport")
        /\ UNCHANGED files
  /\ UNCHANGED <<envVars, helperVars, config, chrome, i, inFlight, auditLog, runnerResult, runLog, scores,
                 webVitalsResults, avgScores, testResult, historyDir,
                 historyData, compareTestResult, browser, logged, exitCode>>

\* Lines 534-544: the call of lighthouse(config.compareUrl, compareOptions).
StartCompareAudit ==
  /\ pc = "compare"
  /\ inFlight' = inFlight + 1
  /\ auditLog' = Append(auditLog, [url |-> config.compareUrl,
                                   port |-> CompareOptions.port, run |-> 0])
  /\ pc' = "await_compare"
  /\ UNCHANGED <<envVars, helperVars, config, chrome, i, runnerResult, runLog, scores,
                 webVitalsResults, avgScores, testResult, files, historyDir,
                 historyData, compareTestResult, browser, logged, failedAt, exitCode>>

\* Lines 550-555: the comparison run's scores, one run and no mean.
CompareScores(lhr, categories) ==
  [c \in {x \in SeqToSet(categories) : Lookup(lhr.categories, x) # UndefinedObj}
     |-> Times100(lhr.categories[c].score)]

\* Lines 544-564: the comparison audit resolves (its metrics and scores make
\* the comparison TestResult) or rejects.
CompareAuditReturns ==
  /\ pc = "await_compare"
  /\ inFlight' = inFlight - 1
  /\ \/ \E r \in lighthouse(CompareOptions) :
          /\ compareTestResult' = [url |-> config.compareUrl,
                                   timestamp |-> SessionTime,
                                   scores |-> CompareScores(r.lhr, config.categories),
                                   webVitals |-> extractWebVitals(r.lhr)]
          /\ pc' = "comparison_report"
          /\ UNCHANGED failedAt
     \/ /\ Throw("compareAudit")
        /\ UNCHANGED compareTestResult
  /\ UNCHANGED <<envVars, helperVars, config, chrome, i, auditLog, runnerResult, runLog, scores,
                 webVitalsResults, avgScores, testResult, files, historyDir,
                 historyData, browser, logged, exitCode>>

\* generateComparisonReport called with its two results exchanged.
ComparisonReportSwapped ==
  /\ pc = "comparison_report"
  /\ \/ /\ files' = files \cup {[kind |-> "comparison-report",
                                  baseline |-> compareTestResult,
                                  current |-> testResult,
                                  html |-> generateComparisonHtml(
                                    ComparisonData(compareTestResult, testResult))]}
        /\ pc' = "finally"
        /\ UNCHANGED failedAt
     \/ /\ Throw("generateComparisonReport")
        /\ UNCHANGED files
  /\ UNCHANGED <<envVars, helperVars, config, chrome, i, inFlight, auditLog, runnerResult, runLog, scores,
                 webVitalsResults, avgScores, testResult, historyDir,
                 historyData, compareTestResult, browser, logged, exitCode>>

\* Lines 566-573: generateComparisonReport, then the closing log lines.
ComparisonReport ==
  /\ pc = "comparison_report"
  /\ \/ /\ files' = files \cup {[kind |-> "comparison-report",
                                  baseline |-> testResult,
                                  current |-> compareTestResult,
                                  html |-> generateComparisonHtml(
                                    ComparisonData(testResult, compareTestResult))]}
        /\ pc' = "finally"
        /\ UNCHANGED failedAt
     \/ /\ Throw("generateComparisonReport")
        /\ UNCHANGED files
  /\ UNCHANGED <<envVars, helperVars, config, chrome, i, inFlight, auditLog, runnerResult, runLog, scores,
                 webVitalsResults, avgScores, testResult, historyDir,
                 historyData, compareTestResult, browser, logged, exitCode>>

\* Lines 574-576: the catch block logs the error and does not rethrow it.
Catch ==
  /\ pc = "catch"
  /\ logged' = Append(logged, ErrorAt(failedAt))
  /\ pc' = "finally"
  /\ UNCHANGED <<envVars, helperVars, config, chrome, i, inFlight, auditLog, runnerResult, runLog, scores,
                 webVitalsResults, avgScores, testResult, files, historyDir,
                 historyData, compareTestResult, browser, failedAt, exitCode>>

\* chrome.kill() placed at the end of the try block instead of in finally.
FinallySkippedAfterError ==
  /\ pc = "finally"
  /\ chrome' = [chrome EXCEPT !.kills = IF failedAt = "" THEN @ + 1 ELSE @]
  /\ pc' = "returned"
  /\ UNCHANGED <<envVars, helperVars, config, i, inFlight, auditLog, runnerResult, runLog, scores,
                 webVitalsResults, avgScores, testResult, files, historyDir,
                 historyData, compareTestResult, browser, logged, failedAt, exitCode>>

\* Lines 576-579: the finally block kills Chrome. A rejection of chrome.kill()
\* leaves runLighthouseTest and reaches the handler of line 603.
Finally ==
  /\ pc = "finally"
  /\ chrome' = [chrome EXCEPT !.kills = @ + 1]
  /\ \/ pc' = "returned"
     \/ pc' = "toplevel"
  /\ UNCHANGED <<envVars, helperVars, config, i, inFlight, auditLog, runnerResult, runLog, scores,
                 webVitalsResults, avgScores, testResult, files, historyDir,
                 historyData, compareTestResult, browser, logged, failedAt, exitCode>>

\* Line 580: the promise of runLighthouseTest resolves; with nothing left to
\* run the process ends with status 0.
Return ==
  /\ pc = "returned"
  /\ exitCode' = 0
  /\ pc' = "exited"
  /\ UNCHANGED <<envVars, helperVars, config, chrome, i, inFlight, auditLog, runnerResult, runLog, scores,
                 webVitalsResults, avgScores, testResult, files, historyDir,
                 historyData, compareTestResult, browser, logged, failedAt>>

\* Lines 603-606: the handler of a rejected runLighthouseTest: process.exit(1).
TopLevelCatch ==
  /\ pc = "toplevel"
  /\ exitCode' = 1
  /\ pc' = "exited"
  /\ UNCHANGED <<envVars, helperVars, config, chrome, i, inFlight, auditLog, runnerResult, runLog, scores,
                 webVitalsResults, avgScores, testResult, files, historyDir,
                 historyData, compareTestResult, browser, logged, failedAt>>

\* The command lines and --config files a session is started with: no
\* --config; or --config, with --count 1, naming a file that is missing, that
\* does not parse, or that holds one of FileConfigs.
InitInputs ==
  /\ argv \in Argvs
  /\ \/ argv.config = "" /\ configFile = NoConfigFile
     \/ /\ argv.config # "" /\ argv.count = 1
        /\ \/ configFile = NoConfigFile
           \/ configFile = ConfigFile(TRUE, FALSE, EmptyObj)
           \/ \E content \in FileConfigs : configFile = ConfigFile(TRUE, TRUE, content)

\* The inputs of a session that is never started (the helpers' specifications).
NoInputs ==
  /\ argv = [url |-> Url, count |-> DefaultCount, device |-> "Desktop", config |-> "",
             compare |-> "", saveHistory |-> TRUE]
  /\ configFile = NoConfigFile

Init ==
  /\ InitSession
  /\ InitInputs
  /\ historyDir \in PriorHistories
  /\ audits = EmptyObj
  /\ metrics = extractWebVitals([audits |-> EmptyObj])
  /\ evaluations = EmptyObj
  /\ recommendations = EmptyObj
  /\ comparisonData = NoResult
  /\ comparisonHtml = NoResult

Next ==
  \/ Configure
  \/ Launch
  \/ Setup
  \/ StartRun
  \/ AuditReturns
  \/ SaveRunReport
  \/ SaveWebVitals
  \/ SaveAccessibilityIssues
  \/ CollectScores
  \/ Aggregate
  \/ LaunchBrowser
  \/ Screenshot
  \/ BuildTestResult
  \/ SaveHistory
  \/ LoadHistory
  \/ TrendReport
  \/ DetailedReport
  \/ StartCompareAudit
  \/ CompareAuditReturns
  \/ ComparisonReport
  \/ Catch
  \/ Finally
  \/ Return
  \/ TopLevelCatch

Spec == Init /\ [][Next]_vars

-----------------------------------------------------------------------------
(* The helpers of webVitals.ts on their own: every audits object of up to  *)
(* MaxAudits audits is built one audit at a time, and extractWebVitals and *)
(* evaluateWebVitals are applied to each.                                  *)

\* The audits tried under a metric's id: score null, no numeric value, and
\* the values 0 and the metric's two thresholds.
AuditsFor(m) ==
  { Audit(Null, GoodBelow(m)), Audit(One, Undefined), Audit(One, Whole(0)),
    Audit(Whole(0), GoodBelow(m)), Audit(Num(1, 2), ImproveBelow(m)) }

InitVitals ==
  /\ InitSession
  /\ NoInputs
  /\ historyDir = {}
  /\ audits = EmptyObj
  /\ metrics = extractWebVitals([audits |-> audits])
  /\ evaluations = evaluateWebVitals(metrics)
  /\ recommendations = generateWebVitalsRecommendations(metrics, evaluations)
  /\ comparisonData = NoResult
  /\ comparisonHtml = NoResult

SetAudit ==
  /\ \E m \in Metrics : \E a \in AuditsFor(m) :
       /\ AuditId(m) \in DOMAIN audits \/ Cardinality(DOMAIN audits) < MaxAudits
       /\ audits' = [id \in (DOMAIN audits) \cup {AuditId(m)} |->
                       IF id = AuditId(m) THEN a ELSE audits[id]]
  /\ metrics' = extractWebVitals([audits |-> audits'])
  /\ evaluations' = evaluateWebVitals(metrics')
  /\ recommendations' = generateWebVitalsRecommendations(metrics', evaluations')
  /\ UNCHANGED <<sessionVars, compareVars>>

RemoveAudit ==
  /\ \E id \in DOMAIN audits :
       audits' = [x \in (DOMAIN audits) \ {id} |-> audits[x]]
  /\ metrics' = extractWebVitals([audits |-> audits'])
  /\ evaluations' = evaluateWebVitals(metrics')
  /\ recommendations' = generateWebVitalsRecommendations(metrics', evaluations')
  /\ UNCHANGED <<sessionVars, compareVars>>

NextVitals == SetAudit \/ RemoveAudit

SpecVitals == InitVitals /\ [][NextVitals]_vars

(* evaluateWebVitals on a record with one metric present, whose value is   *)
(* raised one unit at a time from 0 past the metric's upper threshold.     *)

\* One millisecond, or one thousandth of CLS.
Unit(m) == IF m = "CLS" THEN Num(1, 1000) ELSE Whole(1)

OnlyMetric(m, v) == [n \in Metrics |-> IF n = m THEN v ELSE Null]

InitBand ==
  /\ InitSession
  /\ NoInputs
  /\ historyDir = {}
  /\ audits = EmptyObj
  /\ \E m \in Metrics : metrics = OnlyMetric(m, Whole(0))
  /\ evaluations = evaluateWebVitals(metrics)
  /\ recommendations = generateWebVitalsRecommendations(metrics, evaluations)
  /\ comparisonData = NoResult
  /\ comparisonHtml = NoResult

RaiseValue ==
  /\ \E m \in Metrics :
       /\ metrics[m] # Null
       /\ Lt(metrics[m], Add(ImproveBelow(m), Mul(Whole(BandMargin), Unit(m))))
       /\ metrics' = [metrics EXCEPT ![m] = Add(@, Unit(m))]
  /\ evaluations' = evaluateWebVitals(metrics')
  /\ recommendations' = generateWebVitalsRecommendations(metrics', evaluations')
  /\ UNCHANGED <<sessionVars, audits, compareVars>>

NextBand == RaiseValue

SpecBand == InitBand /\ [][NextBand]_vars

(* The comparison reporter on its own: generateComparisonHtml is applied   *)
(* to baseline/current pairs in which up to MaxCompared metrics, or up to  *)
(* MaxCompared categories, take every combination of the values below.     *)

\* The values a metric takes in the baseline: absent, 0 and its two thresholds.
BaselineValue(m, k) ==
  CASE k = 0 -> Null
    [] k = 1 -> Whole(0)
    [] k = 2 -> GoodBelow(m)
    [] k = 3 -> ImproveBelow(m)

\* The values it takes in the current result: absent, 5, its lower threshold,
\* that threshold plus exactly 1 %, and its upper threshold.
CurrentValue(m, k) ==
  CASE k = 0 -> Null
    [] k = 1 -> Whole(5)
    [] k = 2 -> GoodBelow(m)
    [] k = 3 -> Mul(GoodBelow(m), Num(101, 100))
    [] k = 4 -> ImproveBelow(m)

\* Category scores (means x 100) of the baseline and of the current result;
\* index 0 is a category the result does not have.
BaselineScore(k) == CASE k = 1 -> Whole(0) [] k = 2 -> Whole(70)
CurrentScore(k) ==
  CASE k = 1 -> Whole(0)
    [] k = 2 -> Whole(68)
    [] k = 3 -> Whole(69)
    [] k = 4 -> Num(141, 2)
    [] k = 5 -> Whole(71)
    [] k = 6 -> Whole(72)

\* Subsets of at most MaxCompared elements.
UpTo(S) == {T \in SUBSET S : Cardinality(T) <= MaxCompared}

\* A pair of metrics records in which the metrics outside T are absent and
\* those of T take the values f names.
VitalsPair(T, f) ==
  [baseline |-> [m \in Metrics |-> IF m \in T THEN BaselineValue(m, f[m][1]) ELSE Null],
   current  |-> [m \in Metrics |-> IF m \in T THEN CurrentValue(m, f[m][2]) ELSE Null]]

\* A pair of score records in which only categories of T are scored.
ScorePair(T, f) ==
  [baseline |-> [c \in {x \in T : f[x][1] # 0} |-> BaselineScore(f[c][1])],
   current  |-> [c \in {x \in T : f[x][2] # 0} |-> CurrentScore(f[c][2])]]

\* One pair of each kind, held fixed while the other kind varies.
SampleVitals ==
  [baseline |-> [FCP |-> Whole(1800), LCP |-> Whole(4000), CLS |-> Whole(0),
                 FID |-> Whole(101), TTI |-> Whole(3800), TBT |-> Null,
                 TTFB |-> Whole(800)],
   current  |-> [FCP |-> Whole(1818), LCP |-> Whole(2500), CLS |-> Num(1, 10),
                 FID |-> Whole(100), TTI |-> Whole(7300), TBT |-> Whole(200),
                 TTFB |-> Null]]

SampleScores ==
  [baseline |-> [c \in {"performance", "accessibility", "seo"} |-> Whole(70)],
   current  |-> [c \in {"performance", "accessibility"} |->
                   IF c = "performance" THEN Whole(72) ELSE Num(141, 2)]]

TestResultOf(url, scoresOf, webVitalsOf) ==
  [url |-> url, timestamp |-> SessionTime, scores |-> scoresOf, webVitals |-> webVitalsOf]

VaryVitals ==
  \E T \in UpTo(Metrics) : \E f \in [T -> (0..3) \X (0..4)] :
    comparisonData =
      ComparisonData(
        TestResultOf(Url, SampleScores.baseline, VitalsPair(T, f).baseline),
        TestResultOf(CompareUrl, SampleScores.current, VitalsPair(T, f).current))

VaryScores ==
  \E T \in UpTo(SeqToSet(DefaultCategories)) : \E f \in [T -> (0..2) \X (0..6)] :
    comparisonData =
      ComparisonData(
        TestResultOf(Url, ScorePair(T, f).baseline, SampleVitals.baseline),
        TestResultOf(CompareUrl, ScorePair(T, f).current, SampleVitals.current))

InitCompare ==
  /\ InitSession
  /\ NoInputs
  /\ historyDir = {}
  /\ audits = EmptyObj
  /\ metrics = extractWebVitals([audits |-> EmptyObj])
  /\ evaluations = EmptyObj
  /\ recommendations = EmptyObj
  /\ VaryVitals \/ VaryScores
  /\ comparisonHtml = NoResult

\* generateComparisonReport, lines 30-59 of comparisonReporter.ts.
Compare ==
  /\ comparisonHtml = NoResult
  /\ comparisonHtml' = generateComparisonHtml(comparisonData)
  /\ UNCHANGED <<sessionVars, vitalsVars, comparisonData>>

NextCompare == Compare

SpecCompare == InitCompare /\ [][NextCompare]_vars

(* The configuration step on its own: Configure is applied to every command *)
(* line of ConfigArgvs and every --config file of ConfigContents.          *)

ConfigKeys == {"url", "testCount", "categories", "device", "throttling",
               "compareUrl", "saveHistory"}

\* Command lines with every option given or left out (--url '' and
\* --count 0 are falsy values given explicitly).
ConfigArgvs ==
  [url : {"", Url, "https://example.com"},
   count : (0..MaxRuns) \cup {DefaultCount},
   device : {"Desktop", "Mobile"},
   config : {"", ConfigPath},
   compare : {"", CompareUrl},
   saveHistory : BOOLEAN]

\* The value a configuration file gives a key.
FileValue(k) ==
  CASE k = "url"         -> "https://file.example"
    [] k = "testCount"   -> 3
    [] k = "categories"  -> <<"performance", "seo">>
    [] k = "device"      -> "Mobile"
    [] k = "throttling"  -> [cpuSlowdownMultiplier |-> Whole(1),
                             downloadThroughputKbps |-> Whole(10240),
                             uploadThroughputKbps |-> Whole(10240),
                             rttMs |-> Whole(40)]
    [] k = "compareUrl"  -> "https://file-compare.example"
    [] k = "saveHistory" -> FALSE

InitConfig ==
  /\ InitSession
  /\ historyDir = {}
  /\ audits = EmptyObj
  /\ metrics = extractWebVitals([audits |-> EmptyObj])
  /\ evaluations = EmptyObj
  /\ recommendations = EmptyObj
  /\ comparisonData = NoResult
  /\ comparisonHtml = NoResult
  /\ argv \in ConfigArgvs
  /\ \/ configFile = NoConfigFile
     \/ configFile = ConfigFile(TRUE, FALSE, EmptyObj)
     \/ \E keys \in SUBSET ConfigKeys :
          configFile = ConfigFile(TRUE, TRUE, [k \in keys |-> FileValue(k)])

NextConfig == Configure

SpecConfig == InitConfig /\ [][NextConfig]_vars

-----------------------------------------------------------------------------
(* Properties of the session *)

\* The positions from the catch block on.
Ending == {"catch", "finally", "returned", "toplevel", "exited"}

\* The calls of lighthouse() made by the run loop, and by the comparison.
RunCalls == SelectSeq(auditLog, LAMBDA e : e.run >= 1)
CompareCalls == SelectSeq(auditLog, LAMBDA e : e.run = 0)

FilesOfKind(kind) == {f \in files : f.kind = kind}

\* The history entry this session wrote, if any.
OwnHistory == {f \in historyDir : f.name = SessionTime}

\* C1: when a step fails after the browser was launched, the process exits
\* with status 1; status 0 is only for a session that completed without error.
C1_FailureExitsNonZero ==
  ( /\ pc = "exited"
    /\ chrome.launches = 1
    /\ failedAt \in {"audit", "writeFile", "writeVitals", "writeIssues", "screenshot",
                     "writeHistory", "generateTrendReport", "generateDetailedReport",
                     "generateComparisonReport"} )
  => exitCode = 1

\* C2: once Chrome has been launched it is killed exactly once before the
\* session function returns or rejects, whether the runs succeeded, a run
\* failed or a later step threw; and it is not killed before that.
C2_KilledExactlyOnce ==
  /\ chrome.launches = 0 => chrome.kills = 0
  /\ chrome.launches = 1 =>
       chrome.kills = IF pc \in {"returned", "toplevel", "exited"} THEN 1 ELSE 0

\* A run failed part-way through the loop, and Chrome was killed.
C2_Witness ==
  /\ pc = "returned"
  /\ failedAt = "audit"
  /\ Len(runLog) >= 1
  /\ Len(runLog) < config.testCount
  /\ chrome.kills = 1

\* The runs among the first n of runLog whose result holds category c.
RunsWith(c, n) == {r \in 1..n : c \in DOMAIN runLog[r].categories}

\* Run r has been recorded: its two files are written, its metrics are in the
\* list and its scores are in the score lists.
Recorded(r) ==
  /\ [kind |-> "lighthouse-report", run |-> r] \in files
  /\ [kind |-> "web-vitals", run |-> r] \in files
  /\ Len(webVitalsResults) >= r
  /\ \A c \in SeqToSet(config.categories) \cap DOMAIN scores :
       Len(scores[c]) >= Cardinality(RunsWith(c, r))

\* C3: audits are strictly sequential. At most one audit is in flight; the
\* run loop's calls are runs 1, 2, ... in order, and run r+1 is called only
\* after runs 1..r returned and were recorded; the comparison audit is called
\* once, last, after all N runs returned; Chrome is launched at most once, and
\* exactly once before any audit; every audit uses the launched Chrome's port.
C3_SequentialAudits ==
  /\ inFlight \in {0, 1}
  /\ chrome.launches \in {0, 1}
  /\ auditLog # <<>> => chrome.launches = 1
  /\ \A k \in 1..Len(auditLog) : auditLog[k].port = chrome.port
  /\ \A k \in 1..Len(RunCalls) :
       /\ RunCalls[k].run = k
       /\ RunCalls[k].url = config.url
       /\ \A r \in 1..(k - 1) : r <= Len(runLog) /\ Recorded(r)
  /\ Len(CompareCalls) <= 1
  /\ CompareCalls # <<>> =>
       /\ auditLog[Len(auditLog)].run = 0
       /\ Len(RunCalls) = config.testCount
       /\ Len(runLog) = config.testCount
       /\ \A r \in 1..config.testCount : Recorded(r)

\* The comparison audit is in flight after a loop of at least two runs.
C3_Witness ==
  /\ pc = "await_compare"
  /\ inFlight = 1
  /\ config.testCount >= 2
  /\ Len(auditLog) = config.testCount + 1

\* The sum of (engine score x 100) of category c over the first n runs.
RECURSIVE ScoreSum(_, _)
ScoreSum(c, n) ==
  IF n = 0 THEN Whole(0)
  ELSE Add(ScoreSum(c, n - 1),
           IF c \in DOMAIN runLog[n].categories
             THEN Mul(ToNumber(runLog[n].categories[c].score), Whole(100))
             ELSE Whole(0))

\* C4: once the means are computed, all N runs have returned, and each
\* configured category has a mean exactly when some run's result held it; the
\* mean is the sum of (engine score x 100) over those runs divided by their
\* number. Per-run scores 80, 100, 60 give exactly 80.
C4_MeanOverRunsWithCategory ==
  avgScores # NoResult =>
    /\ Len(runLog) = config.testCount
    /\ DOMAIN avgScores \subseteq SeqToSet(config.categories)
    /\ \A c \in SeqToSet(config.categories) :
         LET n == Cardinality(RunsWith(c, Len(runLog))) IN
           /\ c \in DOMAIN avgScores <=> n > 0
           /\ n > 0 => Mul(avgScores[c], Whole(n)) = ScoreSum(c, Len(runLog))
           /\ scores[c] = <<Whole(80), Whole(100), Whole(60)>> => avgScores[c] = Whole(80)

\* Performance scored 80, 100, 60 and averages 80, while seo was missing from
\* one of the runs and is averaged over the others.
C4_Witness ==
  /\ avgScores # NoResult
  /\ scores["performance"] = <<Whole(80), Whole(100), Whole(60)>>
  /\ avgScores["performance"] = Whole(80)
  /\ Len(scores["seo"]) = 2
  /\ avgScores["seo"] = Whole(50)

\* The metrics extracted from the last run.
MetricsOfLastRun == extractWebVitals(runLog[Len(runLog)])

\* C5: the aggregated result exists only after N >= 1 runs; its metrics are
\* those of the N-th run and its scores are the means; the history entry, the
\* detailed report and the comparison's baseline carry the same metrics.
C5_MetricsOfLastRun ==
  /\ testResult # NoResult =>
       /\ config.testCount >= 1
       /\ Len(runLog) = config.testCount
       /\ testResult.webVitals = MetricsOfLastRun
       /\ testResult.scores = avgScores
  /\ \A f \in OwnHistory : f.data = testResult /\ f.data.webVitals = MetricsOfLastRun
  /\ \A f \in FilesOfKind("detailed-report") :
       f.data.webVitals = MetricsOfLastRun /\ f.data.scores = avgScores
  /\ \A f \in FilesOfKind("comparison-report") : f.baseline.webVitals = MetricsOfLastRun

\* Three runs whose metrics all differ; history, detailed and comparison
\* reports are written with the third run's metrics.
C5_Witness ==
  /\ Len(runLog) = 3
  /\ extractWebVitals(runLog[1]) # MetricsOfLastRun
  /\ extractWebVitals(runLog[2]) # MetricsOfLastRun
  /\ OwnHistory # {}
  /\ FilesOfKind("detailed-report") # {}
  /\ \E f \in FilesOfKind("comparison-report") : f.baseline.webVitals = MetricsOfLastRun

\* An audit of the run loop was rejected: a call that is neither in flight
\* nor answered by a result.
RunAuditFailed ==
  Len(RunCalls) - (IF pc = "await_audit" THEN 1 ELSE 0) > Len(runLog)

AggregateKinds == {"screenshot", "trend-report", "detailed-report", "comparison-report"}

\* C6: if the audit of run k fails, the aggregation aborts: the failed call is
\* the last call of lighthouse() (no later run, no retry, no comparison
\* audit), and there is no aggregated result, history entry or report.
C6_RunFailureAborts ==
  RunAuditFailed =>
    /\ pc \in Ending
    /\ Len(auditLog) = Len(runLog) + 1
    /\ \A k \in 1..Len(auditLog) : auditLog[k].run = k
    /\ inFlight = 0
    /\ avgScores = NoResult
    /\ testResult = NoResult
    /\ OwnHistory = {}
    /\ \A f \in files : f.kind \notin AggregateKinds

\* The second of three runs failed and the process has ended.
C6_Witness ==
  /\ pc = "exited"
  /\ RunAuditFailed
  /\ config.testCount = 3
  /\ Len(auditLog) = 2
  /\ Len(runLog) = 1

\* C7 as claimed: while runs are in progress the session has written no file.
C7_NoFileDuringRuns ==
  pc \in {"loop", "await_audit", "save_report", "save_vitals", "save_issues", "collect"}
    => files = {}

\* C7 as amended: the aggregated outputs (screenshot, history entry, trend,
\* detailed and comparison reports) exist only once all N runs have returned
\* and the loop has ended; until then the session has written only per-run
\* files, of runs already started.
C7_AggregatesAfterAllRuns ==
  /\ (\E f \in files : f.kind \in AggregateKinds) \/ OwnHistory # {} \/ testResult # NoResult
       => Len(runLog) = config.testCount /\ i > config.testCount
  /\ \A f \in files :
       f.kind \notin AggregateKinds =>
         /\ f.kind \in {"lighthouse-report", "web-vitals", "accessibility-issues"}
         /\ f.run \in 1..Len(runLog)

\* The second run's audit is in flight; the first run's files are written and
\* nothing else is.
C7_Witness ==
  /\ pc = "await_audit"
  /\ i = 2
  /\ files = {[kind |-> "lighthouse-report", run |-> 1], [kind |-> "web-vitals", run |-> 1]}
  /\ OwnHistory = {}

-----------------------------------------------------------------------------
(* Properties of the helpers of webVitals.ts *)

\* C8: each metric is read from its own audit id; it is null exactly when
\* that audit is missing, has score null or has no numeric value, and is
\* otherwise the audit's numeric value unchanged (0 stays 0).
C8_ExtractedFromOwnAudit ==
  /\ DOMAIN metrics = Metrics
  /\ \A m \in Metrics :
       LET id == CASE m = "FCP"  -> "first-contentful-paint"
                   [] m = "LCP"  -> "largest-contentful-paint"
                   [] m = "CLS"  -> "cumulative-layout-shift"
                   [] m = "FID"  -> "max-potential-fid"
                   [] m = "TTI"  -> "interactive"
                   [] m = "TBT"  -> "total-blocking-time"
                   [] m = "TTFB" -> "server-response-time"
           absent == \/ id \notin DOMAIN audits
                     \/ audits[id].score = Null
                     \/ audits[id].numericValue = Undefined
       IN /\ metrics[m] = Null <=> absent
          /\ ~absent => metrics[m] = audits[id].numericValue

\* Three audits at once: FCP with the numeric value 0, CLS with score null and
\* FID without a numeric value; LCP's audit is missing.
C8_Witness ==
  /\ DOMAIN audits =
       {"first-contentful-paint", "cumulative-layout-shift", "max-potential-fid"}
  /\ audits["first-contentful-paint"].numericValue = Whole(0)
  /\ audits["cumulative-layout-shift"].score = Null
  /\ audits["max-potential-fid"].numericValue = Undefined
  /\ metrics["FCP"] = Whole(0)
  /\ metrics["CLS"] = Null
  /\ metrics["FID"] = Null
  /\ metrics["LCP"] = Null

\* C9: the evaluation has a key for exactly the metrics that are present, and
\* each key's value is one of the three bands.
C9_EvaluatedIffPresent ==
  /\ DOMAIN evaluations = {m \in Metrics : metrics[m] # Null}
  /\ \A m \in DOMAIN evaluations : evaluations[m] \in {"good", "needs-improvement", "poor"}

\* Some metrics are present, in different bands, and another is absent
\* although its audit is there.
C9_Witness ==
  /\ metrics["FCP"] = Whole(0) /\ evaluations["FCP"] = "good"
  /\ metrics["TBT"] = Whole(600) /\ evaluations["TBT"] = "poor"
  /\ "cumulative-layout-shift" \in DOMAIN audits
  /\ metrics["CLS"] = Null
  /\ DOMAIN evaluations = {"FCP", "TBT"}

\* The thresholds as the claim gives them.
ClaimLo(m) ==
  CASE m = "FCP" -> Whole(1800) [] m = "LCP" -> Whole(2500) [] m = "CLS" -> Num(1, 10)
    [] m = "FID" -> Whole(100) [] m = "TTI" -> Whole(3800) [] m = "TBT" -> Whole(200)
    [] m = "TTFB" -> Whole(800)
ClaimHi(m) ==
  CASE m = "FCP" -> Whole(3000) [] m = "LCP" -> Whole(4000) [] m = "CLS" -> Num(1, 4)
    [] m = "FID" -> Whole(300) [] m = "TTI" -> Whole(7300) [] m = "TBT" -> Whole(600)
    [] m = "TTFB" -> Whole(1800)

BandRank(b) == CASE b = "good" -> 0 [] b = "needs-improvement" -> 1 [] b = "poor" -> 2

BandAsClaimed ==
  \A m \in DOMAIN evaluations :
    LET v == metrics[m] IN
      /\ evaluations[m] = "good" <=> Lt(v, ClaimLo(m))
      /\ evaluations[m] = "needs-improvement" <=> Le(ClaimLo(m), v) /\ Lt(v, ClaimHi(m))
      /\ evaluations[m] = "poor" <=> Le(ClaimHi(m), v)
      /\ v = ClaimLo(m) => evaluations[m] = "needs-improvement"
      /\ v = ClaimHi(m) => evaluations[m] = "poor"

BandNeverImproves ==
  \A m \in Metrics :
    (m \in DOMAIN evaluations /\ m \in DOMAIN evaluations' /\ Le(metrics[m], metrics'[m]))
      => BandRank(evaluations[m]) <= BandRank(evaluations'[m])

\* C10: for every metric and every value from 0 past the upper threshold, in
\* steps of one unit: the band is good iff v < lo, needs-improvement iff
\* lo <= v < hi, poor iff v >= hi (so v = lo is needs-improvement and v = hi
\* is poor), and raising the value never gives a better band.
C10_BandByThresholds == [](BandAsClaimed) /\ [][BandNeverImproves]_vars

\* CLS at exactly 0.25 is poor.
C10_Witness ==
  /\ metrics["CLS"] = Num(1, 4)
  /\ evaluations["CLS"] = "poor"

-----------------------------------------------------------------------------
(* Properties of generateWebVitalsRecommendations (under SpecVitals) *)

\* The number of advice strings the catalog holds for each metric.
CatalogLength(m) == IF m \in {"LCP", "TTI", "TTFB"} THEN 4 ELSE 3

\* C11: the recommendation mapping has an entry for a metric exactly when the
\* metric is present and its band is not good, and the entry is the metric's
\* catalog list, of 3 or 4 strings, whichever of the two other bands it has.
C11_RecommendedIffNotGood ==
  /\ DOMAIN recommendations =
       {m \in Metrics : metrics[m] # Null /\ evaluations[m] # Good}
  /\ \A m \in DOMAIN recommendations :
       /\ evaluations[m] \in {NeedsImprovement, Poor}
       /\ recommendations[m] = RecommendationList(m)
       /\ Len(recommendations[m]) = CatalogLength(m)

\* One metric absent, one good, one needing improvement and one poor.
C11_Witness ==
  /\ \E m \in Metrics : metrics[m] = Null /\ m \notin DOMAIN recommendations
  /\ \E m \in Metrics : /\ metrics[m] # Null /\ evaluations[m] = Good
                         /\ m \notin DOMAIN recommendations
  /\ \E m \in Metrics : /\ metrics[m] # Null /\ evaluations[m] = NeedsImprovement
                         /\ m \in DOMAIN recommendations
  /\ \E m \in Metrics : /\ metrics[m] # Null /\ evaluations[m] = Poor
                         /\ m \in DOMAIN recommendations

-----------------------------------------------------------------------------
(* Properties of the comparison reporter (under SpecCompare) *)

Compared == comparisonHtml # NoResult
BaselineVitals == comparisonData.baseline.webVitals
CurrentVitals == comparisonData.current.webVitals
BaselineScores == comparisonData.baseline.scores
CurrentScores == comparisonData.current.scores
BothPresent == {m \in Metrics : BaselineVitals[m] # Null /\ CurrentVitals[m] # Null}
RowKeys == {comparisonHtml.webVitalsRows[j].key : j \in DOMAIN comparisonHtml.webVitalsRows}

\* C12: the comparison has a diff entry for a metric, and the metric table a
\* row, exactly when both the baseline and the current result have a value
\* for it.
C12_DiffIffBothPresent ==
  Compared =>
    /\ DOMAIN comparisonHtml.webVitalsDiffs = BothPresent
    /\ RowKeys = BothPresent
    /\ Len(comparisonHtml.webVitalsRows) = Cardinality(BothPresent)

\* One metric compared, one present on the baseline side only, one on the
\* current side only.
C12_Witness ==
  /\ Compared
  /\ \E m \in Metrics : m \in DOMAIN comparisonHtml.webVitalsDiffs /\ m \in RowKeys
  /\ \E m \in Metrics : /\ BaselineVitals[m] # Null /\ CurrentVitals[m] = Null
                        /\ m \notin DOMAIN comparisonHtml.webVitalsDiffs
  /\ \E m \in Metrics : /\ BaselineVitals[m] = Null /\ CurrentVitals[m] # Null
                        /\ m \notin DOMAIN comparisonHtml.webVitalsDiffs

\* C13: for a metric present on both sides with a non-zero baseline, the
\* delta is current - baseline, the percentage is delta / baseline x 100 and
\* improved holds exactly when the delta is negative, for every metric alike;
\* LCP 4000 -> 2500 gives -1500, -37.5 and improved.
C13_DeltaPercentageImproved ==
  Compared =>
    /\ \A m \in BothPresent :
         BaselineVitals[m] # Whole(0) =>
           LET d == comparisonHtml.webVitalsDiffs[m] IN
             /\ Add(BaselineVitals[m], d.absolute) = CurrentVitals[m]
             /\ Mul(d.percentage, BaselineVitals[m]) = Mul(d.absolute, Whole(100))
             /\ d.improved <=> Lt(CurrentVitals[m], BaselineVitals[m])
             /\ CurrentVitals[m] = BaselineVitals[m] => ~d.improved
    /\ (BaselineVitals["LCP"] = Whole(4000) /\ CurrentVitals["LCP"] = Whole(2500)) =>
         comparisonHtml.webVitalsDiffs["LCP"] =
           [absolute |-> Whole(-1500), percentage |-> Num(-75, 2), improved |-> TRUE]

\* LCP 4000 -> 2500 compared, next to a CLS that grew and is not improved.
C13_Witness ==
  /\ Compared
  /\ BaselineVitals["LCP"] = Whole(4000) /\ CurrentVitals["LCP"] = Whole(2500)
  /\ comparisonHtml.webVitalsDiffs["LCP"].improved
  /\ BaselineVitals["CLS"] = Num(1, 10) /\ CurrentVitals["CLS"] = Num(1, 4)
  /\ ~comparisonHtml.webVitalsDiffs["CLS"].improved

\* C14: with a baseline of exactly 0 and a current value present, the
\* percentage is 0, in the diff entry and in the table row, whatever the
\* current value; delta and improved are still those of current - baseline.
C14_ZeroBaselinePercentage ==
  Compared =>
    \A m \in BothPresent :
      BaselineVitals[m] = Whole(0) =>
        /\ comparisonHtml.webVitalsDiffs[m] =
             [absolute |-> CurrentVitals[m], percentage |-> Whole(0),
              improved |-> Lt(CurrentVitals[m], Whole(0))]
        /\ \A j \in DOMAIN comparisonHtml.webVitalsRows :
             comparisonHtml.webVitalsRows[j].key = m =>
               /\ comparisonHtml.webVitalsRows[j].percentDiff = Whole(0)
               /\ comparisonHtml.webVitalsRows[j].diff = CurrentVitals[m]

\* A baseline of 0 against a current value of 5.
C14_Witness ==
  /\ Compared
  /\ \E m \in Metrics :
       /\ BaselineVitals[m] = Whole(0) /\ CurrentVitals[m] = Whole(5)
       /\ comparisonHtml.webVitalsDiffs[m].percentage = Whole(0)
       /\ comparisonHtml.webVitalsDiffs[m].absolute = Whole(5)

\* The class the claim gives a category delta.
ClaimedClass(delta) ==
  IF Lt(Whole(1), delta) THEN "improvement"
  ELSE IF Lt(delta, Whole(-1)) THEN "regression"
  ELSE "neutral"

RowsOfClass(class) ==
  {c \in DOMAIN comparisonHtml.scoreRows : comparisonHtml.scoreRows[c].diffClass = class}

\* C15: a compared category's delta is current score - baseline score; its
\* class is improvement iff delta > 1, regression iff delta < -1, neutral
\* otherwise (so at exactly +1 and -1); the class of the table's row is the
\* one the summary counts by; 70 -> 70.5 is neutral.
C15_ScoreDeadZone ==
  Compared =>
    /\ DOMAIN comparisonHtml.scoreRows = DOMAIN BaselineScores
    /\ DOMAIN comparisonHtml.scoreDiffs = DOMAIN BaselineScores
    /\ \A c \in DOMAIN BaselineScores :
         LET row == comparisonHtml.scoreRows[c] IN
           /\ c \in DOMAIN CurrentScores =>
                Add(BaselineScores[c], row.diff) = CurrentScores[c]
           /\ comparisonHtml.scoreDiffs[c] = row.diff
           /\ row.diffClass = ClaimedClass(row.diff)
           /\ row.diff \in {Whole(1), Whole(-1)} => row.diffClass = "neutral"
           /\ (c \in DOMAIN CurrentScores /\ BaselineScores[c] = Whole(70)
                 /\ CurrentScores[c] = Num(141, 2)) => row.diffClass = "neutral"
    /\ comparisonHtml.summary.improvedScores = Cardinality(RowsOfClass("improvement"))
    /\ comparisonHtml.summary.regressedScores = Cardinality(RowsOfClass("regression"))

\* 70 -> 70.5 in one category and a delta of exactly +1 or -1 in another.
C15_Witness ==
  /\ Compared
  /\ \E c \in DOMAIN BaselineScores \cap DOMAIN CurrentScores :
       /\ BaselineScores[c] = Whole(70) /\ CurrentScores[c] = Num(141, 2)
       /\ comparisonHtml.scoreRows[c].diffClass = "neutral"
  /\ \E c \in DOMAIN BaselineScores \cap DOMAIN CurrentScores :
       /\ comparisonHtml.scoreRows[c].diff \in {Whole(1), Whole(-1)}
       /\ comparisonHtml.scoreRows[c].diffClass = "neutral"

ImprovedCategories == {c \in DOMAIN comparisonHtml.scoreDiffs :
                         Lt(Whole(1), comparisonHtml.scoreDiffs[c])}
RegressedCategories == {c \in DOMAIN comparisonHtml.scoreDiffs :
                          Lt(comparisonHtml.scoreDiffs[c], Whole(-1))}
ImprovedMetrics == {m \in DOMAIN comparisonHtml.webVitalsDiffs :
                      comparisonHtml.webVitalsDiffs[m].improved}
RegressedMetrics == {m \in DOMAIN comparisonHtml.webVitalsDiffs :
                       /\ ~comparisonHtml.webVitalsDiffs[m].improved
                       /\ Lt(Whole(1), MathAbs(comparisonHtml.webVitalsDiffs[m].percentage))}

\* C16: the summary counts categories by the dead zone (improved iff delta > 1,
\* regressed iff delta < -1) and metrics by the improved flag (improved iff
\* the flag is set, regressed iff not improved and |percentage| > 1); nothing
\* is counted on both sides and no count exceeds the number of entries.
C16_SummaryCounts ==
  Compared =>
    LET summary == comparisonHtml.summary IN
      /\ summary.improvedScores = Cardinality(ImprovedCategories)
      /\ summary.regressedScores = Cardinality(RegressedCategories)
      /\ summary.improvedWebVitals = Cardinality(ImprovedMetrics)
      /\ summary.regressedWebVitals = Cardinality(RegressedMetrics)
      /\ ImprovedCategories \cap RegressedCategories = {}
      /\ ImprovedMetrics \cap RegressedMetrics = {}
      /\ summary.improvedScores + summary.regressedScores
           <= Cardinality(DOMAIN comparisonHtml.scoreDiffs)
      /\ summary.improvedWebVitals + summary.regressedWebVitals
           <= Cardinality(DOMAIN comparisonHtml.webVitalsDiffs)

\* Five metrics compared: a drop of under 1 % counts as improved, growth of
\* exactly 1 % and growth from a baseline of 0 count as neither; an improved
\* and a regressed category next to them.
C16_Witness ==
  /\ Compared
  /\ Cardinality(DOMAIN comparisonHtml.webVitalsDiffs) = 5
  /\ \E m \in ImprovedMetrics :
       ~Lt(Whole(1), MathAbs(comparisonHtml.webVitalsDiffs[m].percentage))
  /\ \E m \in DOMAIN comparisonHtml.webVitalsDiffs :
       /\ Lt(Whole(0), comparisonHtml.webVitalsDiffs[m].absolute)
       /\ m \notin RegressedMetrics
  /\ comparisonHtml.summary.improvedWebVitals = 2
  /\ comparisonHtml.summary.regressedWebVitals = 1
  /\ comparisonHtml.summary.improvedScores = 1
  /\ comparisonHtml.summary.regressedScores = 1

-----------------------------------------------------------------------------
(* Properties of the history and of the configuration (under Spec) *)

\* The timestamps of the entries of the history directory that can be read
\* (no two entries share a timestamp).
ReadableTimes == {f.data.timestamp : f \in {g \in historyDir : g.readable}}

Ascending(entries) ==
  \A j, k \in 1..Len(entries) : j < k => entries[j].timestamp <= entries[k].timestamp

\* C17: a trend report is written only from at least 2 history entries (none
\* when the session's own entry is the only one), and the entries it embeds
\* are all the readable ones in ascending order of timestamp, in whatever
\* order the directory was listed.
C17_TrendNeedsTwoSorted ==
  /\ \A f \in FilesOfKind("trend-report") :
       /\ Len(f.historyData) >= 2
       /\ Ascending(f.historyData)
       /\ {f.historyData[j].timestamp : j \in 1..Len(f.historyData)} = ReadableTimes
       /\ Len(f.historyData) = Cardinality(ReadableTimes)
  /\ (pc \in {"trend", "detailed"} /\ Len(historyData) < 2) => pc = "detailed"
  /\ Cardinality(ReadableTimes) < 2 => FilesOfKind("trend-report") = {}

\* The session's entry falls between two earlier ones, and the report lists
\* the three in order.
C17_Witness ==
  \E f \in FilesOfKind("trend-report") :
    /\ Len(f.historyData) = 3
    /\ f.historyData[2] = testResult
    /\ f.historyData[1].timestamp < f.historyData[2].timestamp
    /\ f.historyData[2].timestamp < f.historyData[3].timestamp

\* The files of the history directory whose read fails.
Unreadable == {f \in historyDir : ~f.readable}

ReadFailures == {k \in 1..Len(logged) : logged[k].step = "readJSON"}

\* The steps that follow the loading of the history.
AfterHistory == {"generateTrendReport", "generateDetailedReport", "compareAudit",
                 "generateComparisonReport"}

\* C18: when the read of a history file fails while the history is loaded,
\* the failure is logged once, the entries loaded are those of all the files
\* that can be read, and the session goes on to the trend and detailed
\* reports: whatever failure follows is that of a later step.
C18_UnreadableHistorySkipped ==
  ReadFailures # {} =>
    /\ \A f \in Unreadable :
         Cardinality({k \in ReadFailures : logged[k].file = f.name}) = 1
    /\ Cardinality(ReadFailures) = Cardinality(Unreadable)
    /\ {historyData[j].timestamp : j \in 1..Len(historyData)} = ReadableTimes
    /\ Len(historyData) = Cardinality(ReadableTimes)
    /\ pc \notin {"start", "launch", "setup", "loop", "load_history"}
    /\ failedAt = "" \/ failedAt \in AfterHistory
    /\ (pc \in {"returned", "exited"} /\ failedAt = "") =>
         /\ FilesOfKind("trend-report") # {}
         /\ FilesOfKind("detailed-report") # {}

\* A file of the directory could not be read; the trend report still holds
\* the three entries that could, and the detailed report is written.
C18_Witness ==
  /\ ReadFailures # {}
  /\ \E f \in FilesOfKind("trend-report") : Len(f.historyData) = 3
  /\ FilesOfKind("detailed-report") # {}
  /\ failedAt = ""

\* The configuration of the command line and its defaults alone.
CommandLineConfig == MergeConfig(argv, EmptyObj)

ConfigRequested == argv.config # ""
ConfigUnloadable == ~configFile.exists \/ ~configFile.parses
ConfigFailureLogged == \E k \in 1..Len(logged) : logged[k].step = "readConfig"

\* C19: when --config names a file that is missing or whose content is
\* invalid, the failure is logged and the session proceeds with the
\* command-line/default configuration.
C19_ConfigFailureLogged ==
  (pc # "start" /\ ConfigRequested /\ ConfigUnloadable) =>
    /\ ConfigFailureLogged
    /\ config = CommandLineConfig

-----------------------------------------------------------------------------
(* Properties of the configuration merge (under SpecConfig) *)

\* What the file contributes: its content if --config is given and the file
\* could be loaded, nothing otherwise.
LoadedFile ==
  IF ConfigRequested /\ configFile.exists /\ configFile.parses
  THEN configFile.content ELSE EmptyObj

\* The command-line value of a key, or its default.
CommandLineValue(k) ==
  CASE k = "url"         -> IF argv.url # "" THEN argv.url ELSE "https://playwright.dev"
    [] k = "testCount"   -> IF argv.count # 0 THEN argv.count ELSE 5
    [] k = "categories"  -> <<"performance", "accessibility", "best-practices", "seo">>
    [] k = "device"      -> argv.device
    [] k = "throttling"  -> [cpuSlowdownMultiplier |-> Whole(4),
                             downloadThroughputKbps |-> Num(8192, 5),
                             uploadThroughputKbps |-> Whole(768),
                             rttMs |-> Whole(150)]
    [] k = "compareUrl"  -> argv.compare
    [] k = "saveHistory" -> argv.saveHistory

\* C20: the effective configuration is the command-line/default values
\* overridden by the configuration file: a key the file holds has the file's
\* value, every other key its command-line value or default.
C20_FileOverridesCommandLine ==
  pc # "start" =>
    /\ DOMAIN config = ConfigKeys
    /\ \A k \in DOMAIN LoadedFile : config[k] = LoadedFile[k]
    /\ \A k \in ConfigKeys \ DOMAIN LoadedFile : config[k] = CommandLineValue(k)

\* --count 2 --device Desktop with a file that sets testCount and device
\* only: 3 runs on Mobile, the url of the command line.
C20_Witness ==
  /\ pc = "launch"
  /\ argv.count = 2 /\ argv.device = "Desktop" /\ argv.url = "https://example.com"
  /\ DOMAIN LoadedFile = {"testCount", "device"}
  /\ config.testCount = 3 /\ config.device = "Mobile"
  /\ config.url = "https://example.com" /\ config.saveHistory = argv.saveHistory

-----------------------------------------------------------------------------
(* Further properties of the session *)

\* C21: the run count of the loop is a positive integer, 5 when none is
\* given; the loop makes exactly that many audit runs, and the means are
\* never computed after zero runs.
C21_RunCountPositive ==
  /\ pc # "start" => config.testCount >= 1
  /\ (pc # "start" /\ argv.count = 5 /\ "testCount" \notin DOMAIN LoadedFile) =>
       config.testCount = 5
  /\ avgScores # NoResult =>
       /\ Len(RunCalls) = config.testCount
       /\ Len(runLog) >= 1

\* The history write of lines 499-502 was reached and did not throw.
HistoryWritten ==
  /\ testResult # NoResult
  /\ config.saveHistory
  /\ pc # "save_history"
  /\ failedAt # "writeHistory"

\* C22: with saveHistory true, once the aggregated result is built and
\* written the session has added exactly one history file, which holds that
\* result; no step ever removes or changes a file of the history directory;
\* with saveHistory false the session adds no history file, reads none and
\* writes no trend report.
C22_HistoryAppendOnly ==
  /\ [](/\ OwnHistory = IF HistoryWritten
                        THEN {HistoryFile(SessionTime, TRUE, testResult)} ELSE {}
        /\ (pc # "start" /\ ~config.saveHistory) =>
             /\ historyData = <<>>
             /\ ReadFailures = {}
             /\ FilesOfKind("trend-report") = {})
  /\ [][/\ historyDir \subseteq historyDir'
        /\ Cardinality(historyDir' \ historyDir) <= 1]_vars

\* A session with history saving ends with its entry added to the three
\* files earlier sessions left.
C22_Witness ==
  /\ pc = "exited"
  /\ config.saveHistory
  /\ Cardinality(OwnHistory) = 1
  /\ Cardinality(historyDir \ OwnHistory) = 3
  /\ failedAt = ""

\* A number between 0 and 100, both included.
InScoreRange(x) == Le(Whole(0), x) /\ Le(x, Whole(100))

\* The engine scores seen so far are null or in [0,1].
EngineScoresInUnit ==
  \A k \in 1..Len(runLog) : \A c \in DOMAIN runLog[k].categories :
    LET s == runLog[k].categories[c].score
    IN s = Null \/ (Le(Whole(0), s) /\ Le(s, One))

\* C23: with engine scores in [0,1] (or null), every collected per-run
\* score and every mean score lies in [0,100].
C23_ScoresInRange ==
  EngineScoresInUnit =>
    /\ \A c \in DOMAIN scores : \A k \in 1..Len(scores[c]) : InScoreRange(scores[c][k])
    /\ avgScores # NoResult => \A c \in DOMAIN avgScores : InScoreRange(avgScores[c])

\* Three runs, the accessibility score null in one and 1 in another: the
\* collected scores are 0 and 100 and the mean lies strictly between.
C23_Witness ==
  /\ avgScores # NoResult
  /\ Len(runLog) = 3
  /\ \E k \in 1..3 : runLog[k].categories["accessibility"].score = Null
  /\ \E k \in 1..3 : scores["accessibility"][k] = Whole(0)
  /\ \E k \in 1..3 : scores["accessibility"][k] = Whole(100)
  /\ "accessibility" \in DOMAIN avgScores
  /\ Lt(Whole(0), avgScores["accessibility"])
  /\ Lt(avgScores["accessibility"], Whole(100))

\* The steps that follow the run loop, in the order of the source.
PostLoopSteps == <<"screenshot", "writeHistory", "loadHistory", "trendReport",
                   "detailedReport", "compareAudit", "comparisonReport">>

\* What each step leaves behind when it has succeeded.
StepDone(step) ==
  CASE step = "screenshot"       -> FilesOfKind("screenshot") # {}
    [] step = "writeHistory"     -> OwnHistory # {}
    [] step = "loadHistory"      -> historyData # <<>>
    [] step = "trendReport"      -> FilesOfKind("trend-report") # {}
    [] step = "detailedReport"   -> FilesOfKind("detailed-report") # {}
    [] step = "compareAudit"     -> compareTestResult # NoResult
    [] step = "comparisonReport" -> FilesOfKind("comparison-report") # {}

\* Whether the configuration (and, for the trend report, the number of
\* history entries) calls for the step.
StepDue(step) ==
  CASE step \in {"screenshot", "detailedReport"}      -> TRUE
    [] step \in {"writeHistory", "loadHistory"}       -> config.saveHistory
    [] step = "trendReport"                           -> config.saveHistory /\ Len(historyData) > 1
    [] step \in {"compareAudit", "comparisonReport"}  -> config.compareUrl # ""

\* The first step of PostLoopSteps that a failure after the loop prevents
\* (0 for no failure, or a failure before the loop ended).
FailedStep ==
  CASE failedAt \in {"chromium.launch", "screenshot"} -> 1
    [] failedAt = "testResult"                         -> 2
    [] failedAt = "writeHistory"                       -> 2
    [] failedAt = "readdir"                            -> 3
    [] failedAt = "generateTrendReport"                -> 4
    [] failedAt = "generateDetailedReport"             -> 5
    [] failedAt = "compareAudit"                       -> 6
    [] failedAt = "generateComparisonReport"           -> 7
    [] OTHER                                           -> 0

\* C25: after the run loop the steps happen in the order screenshot, history
\* write, history load, trend report, detailed report, comparison audit,
\* comparison report; a step that fails prevents every later step, and the
\* files written by the steps before it stay.
C25_PostLoopOrder ==
  /\ [](/\ \A a, b \in 1..Len(PostLoopSteps) :
             (a < b /\ StepDone(PostLoopSteps[b]) /\ StepDue(PostLoopSteps[a]))
               => StepDone(PostLoopSteps[a])
        /\ StepDone("screenshot") => avgScores # NoResult
        /\ FailedStep > 0 =>
             \A a \in 1..Len(PostLoopSteps) :
               /\ a >= FailedStep => ~StepDone(PostLoopSteps[a])
               /\ (a < FailedStep /\ StepDue(PostLoopSteps[a])) => StepDone(PostLoopSteps[a])
        /\ failedAt = "screenshot" =>
             /\ Len(runLog) = config.testCount
             /\ OwnHistory = {}
             /\ \A f \in files : f.kind \in {"lighthouse-report", "web-vitals",
                                             "accessibility-issues"})
  /\ [][files \subseteq files' /\ historyDir \subseteq historyDir']_vars

\* The comparison audit has failed and the session is over: its history
\* entry, the trend report and the detailed report are in place.
C25_Witness ==
  /\ pc = "exited"
  /\ failedAt = "compareAudit"
  /\ OwnHistory # {}
  /\ FilesOfKind("trend-report") # {}
  /\ FilesOfKind("detailed-report") # {}
  /\ FilesOfKind("screenshot") # {}
  /\ FilesOfKind("comparison-report") = {}

\* C26: once the screenshot's browser has been launched it is closed on
\* every path: it is open only while the page is being captured, and a
\* session that has ended has not left it open.
C26_ScreenshotBrowserClosed ==
  /\ browser = "open" => pc = "capture"
  /\ pc = "exited" => browser \in {"none", "closed"}

\* C27: for every configured category list, each run records the score of
\* every configured category its result holds, without error, and the
\* aggregation gives a mean for each category that has a score.
C27_ConfiguredCategoriesScored ==
  /\ failedAt \notin {"scores.push", "scores.length"}
  /\ (pc = "loop" /\ i > 1) =>
       \A c \in SeqToSet(config.categories) :
         /\ c \in DOMAIN scores
         /\ Len(scores[c]) = Cardinality(RunsWith(c, Len(runLog)))
  /\ avgScores # NoResult =>
       \A c \in SeqToSet(config.categories) :
         RunsWith(c, Len(runLog)) # {} => c \in DOMAIN avgScores

\* The result of one audit of the engine, as the comparison takes it: the
\* scores (x100) of the configured categories it holds, and its metrics.
SingleRunOf(r) ==
  /\ DOMAIN compareTestResult.scores = SeqToSet(config.categories) \cap DOMAIN r.categories
  /\ \A c \in DOMAIN compareTestResult.scores :
       compareTestResult.scores[c] = Mul(ToNumber(r.categories[c].score), Whole(100))
  /\ compareTestResult.webVitals = extractWebVitals(r)

\* C28: with a comparison URL, exactly one more audit is run, against that
\* URL and after the detailed report was written; the comparison's baseline
\* is the aggregated result of the primary URL (mean scores, metrics of the
\* last run) and its current side the scores and metrics of that one audit;
\* without a comparison URL there is no such audit and no comparison report.
C28_SingleComparisonAudit ==
  pc # "start" =>
    /\ Len(CompareCalls) <= 1
    /\ \A k \in 1..Len(auditLog) :
         auditLog[k].run = 0 =>
           /\ k = Len(auditLog)
           /\ k = config.testCount + 1
           /\ auditLog[k].url = config.compareUrl
           /\ config.compareUrl # ""
           /\ FilesOfKind("detailed-report") # {}
    /\ (pc = "exited" /\ failedAt = "" /\ exitCode = 0 /\ config.compareUrl # "") =>
         /\ Len(CompareCalls) = 1
         /\ Cardinality(FilesOfKind("comparison-report")) = 1
    /\ \A f \in FilesOfKind("comparison-report") :
         /\ f.baseline = testResult
         /\ f.baseline.url = config.url
         /\ f.baseline.scores = avgScores
         /\ f.baseline.webVitals = MetricsOfLastRun
         /\ f.current = compareTestResult
         /\ f.current.url = config.compareUrl
         /\ \E r \in EngineLhrs : SingleRunOf(r)
         /\ DOMAIN f.html.scoreDiffs = DOMAIN avgScores
         /\ \A c \in DOMAIN avgScores :
              f.html.scoreDiffs[c] =
                Sub(IF c \in DOMAIN compareTestResult.scores
                      THEN compareTestResult.scores[c] ELSE Whole(0),
                    avgScores[c])
    /\ config.compareUrl = "" =>
         /\ CompareCalls = <<>>
         /\ compareTestResult = NoResult
         /\ FilesOfKind("comparison-report") = {}

\* Three runs of the primary URL, then one audit of the comparison URL and
\* the comparison report; the two sides differ.
C28_Witness ==
  /\ pc = "exited"
  /\ failedAt = ""
  /\ Len(RunCalls) = 3
  /\ Len(CompareCalls) = 1
  /\ \E f \in FilesOfKind("comparison-report") :
       /\ f.baseline.scores # f.current.scores
       /\ f.baseline.webVitals # f.current.webVitals
       /\ \E c \in DOMAIN f.html.scoreDiffs : Lt(Whole(0), f.html.scoreDiffs[c])

-----------------------------------------------------------------------------
(* Further properties of the comparison report (under SpecCompare) *)

Radar == comparisonHtml.radar

\* C24: every value plotted in the radar chart lies in [0,100], CLS
\* included, and of the two values of a metric the smaller raw value never
\* has the smaller plotted value.
C24_RadarInRange ==
  comparisonHtml # NoResult =>
    /\ SeqToSet(Radar.labels) = BothPresent
    /\ \A m \in BothPresent :
         /\ InScoreRange(Radar.normalizedBaseline[m])
         /\ InScoreRange(Radar.normalizedCurrent[m])
         /\ Le(BaselineVitals[m], CurrentVitals[m]) =>
              Le(Radar.normalizedCurrent[m], Radar.normalizedBaseline[m])
         /\ Le(CurrentVitals[m], BaselineVitals[m]) =>
              Le(Radar.normalizedBaseline[m], Radar.normalizedCurrent[m])

\* The rows of the metric table that carry a colour class.
MetricRowsOfClass(class) ==
  {j \in DOMAIN comparisonHtml.webVitalsRows : comparisonHtml.webVitalsRows[j].diffClass = class}

\* C29: the Web Vitals summary agrees with the metric table: its improved
\* count is the number of rows coloured improvement and its regressed count
\* the number of rows coloured regression.
C29_SummaryAgreesWithTable ==
  Compared =>
    /\ comparisonHtml.summary.improvedWebVitals = Cardinality(MetricRowsOfClass("improvement"))
    /\ comparisonHtml.summary.regressedWebVitals = Cardinality(MetricRowsOfClass("regression"))

\* C30: the category comparison has one delta, and the table one row, per
\* category of the baseline and none for a category only the current result
\* has; a baseline category the current result lacks is compared with a
\* current score of 0, so its delta is minus its baseline score.
C30_DeltaPerBaselineCategory ==
  Compared =>
    /\ DOMAIN comparisonHtml.scoreDiffs = DOMAIN BaselineScores
    /\ DOMAIN comparisonHtml.scoreRows = DOMAIN BaselineScores
    /\ \A c \in DOMAIN BaselineScores :
         /\ comparisonHtml.scoreRows[c].diff = comparisonHtml.scoreDiffs[c]
         /\ c \in DOMAIN CurrentScores =>
              comparisonHtml.scoreDiffs[c] = Sub(CurrentScores[c], BaselineScores[c])
         /\ c \notin DOMAIN CurrentScores =>
              /\ comparisonHtml.scoreRows[c].currentScore = Whole(0)
              /\ Add(comparisonHtml.scoreDiffs[c], BaselineScores[c]) = Whole(0)

\* One category scored 70 in the baseline only (delta -70) and another
\* scored in the current result only (no delta).
C30_Witness ==
  /\ Compared
  /\ \E c \in DOMAIN BaselineScores \ DOMAIN CurrentScores :
       /\ BaselineScores[c] = Whole(70)
       /\ comparisonHtml.scoreDiffs[c] = Whole(-70)
       /\ comparisonHtml.scoreRows[c].diffClass = "regression"
  /\ \E c \in DOMAIN CurrentScores \ DOMAIN BaselineScores :
       /\ Lt(Whole(0), CurrentScores[c])
       /\ c \notin DOMAIN comparisonHtml.scoreDiffs

====
